---- MODULE Spec2Model ----
(***************************************************************************)
(* The experiment execution engine of spectrum-impl: the environment-      *)
(* sharing scheduler (experiments_by_environment), the run loop            *)
(* (run_experiments / main) and the trial executor with retry and          *)
(* cancellation (retry_experiment).                                        *)
(*                                                                         *)
(* The program runs on a single-threaded asyncio event loop.  The main     *)
(* coroutine is modelled by its position pc; the signal handler            *)
(* (ctrl_c.set) and the steps of the in-flight run() task are callbacks    *)
(* the loop can run only while the main coroutine is suspended at an       *)
(* await.  Positions that are not suspension points have exactly one       *)
(* enabled continuation.                                                   *)
(***************************************************************************)
EXTENDS Integers, Sequences, FiniteSets, TLC

(***************************************************************************)
(* Bounds of the model.                                                    *)
(***************************************************************************)
\* longest experiment list given to the scheduler on its own
MaxExperiments == 3
\* longest experiment list given to the whole run loop
MaxRunExperiments == 3
\* largest client count of an experiment
MaxClients == 2
\* most signals delivered while one trial is running
MaxSignals == 2
\* most build records in manifest.json when a run begins
MaxManifest == 2
\* most calls of ensure_ami_build in one run
MaxCalls == 3
\* most calls of cloud.terraform made one after the other
MaxTfCalls == 3

\* worker machines, and client machines, of a spectrum Setting
MaxStopMachines == 2

\* clients of an Experiment given to to_environment
MaxViewers == 6

\* clients_per_machine of an Experiment given to to_environment
MaxPerMachine == 3

\* worker_machines_per_group of an Experiment given to to_environment
MaxGroupMachines == 2

\* parties of a SeedHomomorphic protocol
MaxParties == 3

\* records handed to the writer of stream_json, and distinct records
MaxRecords == 3

\* workers_per_machine of a spectrum Experiment
MaxWorkersPerMachine == 2

\* client_machines, and worker_machines, of an Environment given to
\* to_setup
MaxSetupMachines == 3
\* largest build_time of a build record
MaxTime == 2

(***************************************************************************)
(* Program constants.                                                      *)
(***************************************************************************)
MAX_ATTEMPTS == 5

\* Instance types are strings; Python compares them lexicographically.
\* The two names used here, listed in increasing order.
InstanceTypes == <<"c5.4xlarge", "c5.9xlarge">>

DEFAULT_INSTANCE_TYPE == InstanceTypes[1]

StrLt(a, b) ==
    \E i, j \in DOMAIN InstanceTypes :
        /\ InstanceTypes[i] = a
        /\ InstanceTypes[j] = b
        /\ i < j

(***************************************************************************)
(* Protocol, Experiment, Environment (experiments/spectrum/__init__.py).   *)
(***************************************************************************)
Symmetric == [kind |-> "Symmetric", parties |-> 0]

SymmetricPub == [kind |-> "SymmetricPub", parties |-> 0]

SeedHomomorphic(parties) == [kind |-> "SeedHomomorphic", parties |-> parties]

\* Experiment.groups
groups_of(e) ==
    CASE e.protocol.kind = "Symmetric" -> 2
      [] e.protocol.kind = "SymmetricPub" -> 2
      [] e.protocol.kind = "SeedHomomorphic" -> e.protocol.parties

\* Experiment.cpm; clients_per_machine = 0 stands for Python's None
cpm(e) ==
    IF e.clients_per_machine # 0 THEN e.clients_per_machine
    ELSE IF e.hammer THEN 8
    ELSE 500

\* a mutant of ceil_div: the quotient is rounded down
floor_div(a, b) == a \div b

\* math.ceil(a / b) for a >= 0, b >= 1
ceil_div(a, b) == (a + b - 1) \div b

\* Experiment.to_environment
to_environment(e) ==
    [instance_type |-> e.instance_type,
     client_machines |-> ceil_div(e.clients, cpm(e)),
     worker_machines_east |->
         e.worker_machines_per_group * ((groups_of(e) + 1) \div 2),
     worker_machines_west |->
         e.worker_machines_per_group * (groups_of(e) \div 2)]

\* Environment.__lt__ as generated by dataclass(order=True): the fields are
\* compared as a tuple, in declaration order.
EnvLt(a, b) ==
    \/ StrLt(a.instance_type, b.instance_type)
    \/ /\ a.instance_type = b.instance_type
       /\ \/ a.client_machines < b.client_machines
          \/ /\ a.client_machines = b.client_machines
             /\ \/ a.worker_machines_east < b.worker_machines_east
                \/ /\ a.worker_machines_east = b.worker_machines_east
                   /\ a.worker_machines_west < b.worker_machines_west

\* Environment.total_machines: the publisher, the workers and the clients
total_machines(environment) ==
    environment.client_machines
        + environment.worker_machines_east
        + environment.worker_machines_west
        + 1

(***************************************************************************)
(* The scheduler.  Experiments are Python objects: two list entries may be *)
(* equal as values and still be two objects, so an entry is identified by  *)
(* its position in the input list and the sort permutes positions.         *)
(***************************************************************************)
Key(exps, i) == to_environment(exps[i])

\* One insertion of the stable sort: position i goes before the first
\* position whose key is strictly greater than its own.
RECURSIVE Insert(_, _, _)
Insert(exps, s, i) ==
    IF s = <<>> THEN <<i>>
    ELSE IF EnvLt(Key(exps, i), Key(exps, Head(s))) THEN <<i>> \o s
    ELSE <<Head(s)>> \o Insert(exps, Tail(s), i)

\* The same insertion, but before the first position whose key is not
\* smaller: equal keys end up in reverse input order (an unstable sort).
RECURSIVE InsertUnstable(_, _, _)
InsertUnstable(exps, s, i) ==
    IF s = <<>> THEN <<i>>
    ELSE IF ~EnvLt(Key(exps, Head(s)), Key(exps, i)) THEN <<i>> \o s
    ELSE <<Head(s)>> \o InsertUnstable(exps, Tail(s), i)

RECURSIVE SortPrefix(_, _)
SortPrefix(exps, n) ==
    IF n = 0 THEN <<>>
    ELSE Insert(exps, SortPrefix(exps, n - 1), n)

RECURSIVE SortPrefixUnstable(_, _)
SortPrefixUnstable(exps, n) ==
    IF n = 0 THEN <<>>
    ELSE InsertUnstable(exps, SortPrefixUnstable(exps, n - 1), n)

\* the input order, left as it is
unsorted(exps) == [i \in 1..Len(exps) |-> i]

unstable_sorted(exps) == SortPrefixUnstable(exps, Len(exps))

\* sorted(experiments, key=Experiment.to_environment): stable, uses only <
sorted(exps) == SortPrefix(exps, Len(exps))

\* itertools.groupby(order, to_environment) with every group made a list:
\* maximal runs of adjacent positions with equal keys.
RECURSIVE groupby(_, _, _)
groupby(exps, order, n) ==
    IF n = 0 THEN <<>>
    ELSE LET prev == groupby(exps, order, n - 1)
             k == Key(exps, order[n])
         IN  IF prev # <<>> /\ prev[Len(prev)].environment = k
             THEN [prev EXCEPT ![Len(prev)].experiments = Append(@, order[n])]
             ELSE Append(prev, [environment |-> k, experiments |-> <<order[n]>>])

group_unsorted(exps) == groupby(exps, unsorted(exps), Len(exps))

\* experiments_by_environment / group_by_environment
experiments_by_environment(exps) == groupby(exps, sorted(exps), Len(exps))

(***************************************************************************)
(* Inputs.                                                                 *)
(***************************************************************************)
Experiment(clients, instance_type, wmpg, protocol) ==
    [clients |-> clients,
     instance_type |-> instance_type,
     clients_per_machine |-> 1,
     worker_machines_per_group |-> wmpg,
     protocol |-> protocol,
     hammer |-> TRUE]

\* the experiments the scheduler is tried on
ExperimentPool ==
    { Experiment(c, it, 1, p) :
        c \in 1..MaxClients,
        it \in {InstanceTypes[1], InstanceTypes[2]},
        p \in {Symmetric, SeedHomomorphic(3)} }

\* the experiments the run loop is tried on: the two machine shapes
\* {client_machines: 1, worker_machines: 2} and
\* {client_machines: 1, worker_machines: 4}
RunPool ==
    { Experiment(1, DEFAULT_INSTANCE_TYPE, 1, Symmetric),
      Experiment(1, DEFAULT_INSTANCE_TYPE, 2, Symmetric) }

SeqsUpTo(S, n) == UNION { [1..k -> S] : k \in 0..n }

(***************************************************************************)
(* The build cache (experiments/packer.py).  An optional value is a        *)
(* sequence of length at most one: <<>> stands for Python's None.          *)
(***************************************************************************)
AWS_REGION == "us-east-2"

Config(instance_type, sha, profile) ==
    [instance_type |-> instance_type, sha |-> sha, profile |-> profile]

Build(timestamp, ami, config) ==
    [timestamp |-> timestamp,
     region |-> AWS_REGION,
     ami |-> ami,
     instance_type |-> config.instance_type,
     sha |-> config.sha,
     profile |-> config.profile]

\* Build.to_config
to_config(build) == Config(build.instance_type, build.sha, build.profile)

\* one insertion of builds.sort(key=attrgetter("timestamp"), reverse=True):
\* a stable sort, so b (later in the file) goes after the records whose
\* timestamp is not smaller than its own
RECURSIVE InsertBuild(_, _)
InsertBuild(s, b) ==
    IF s = <<>> THEN <<b>>
    ELSE IF Head(s).timestamp < b.timestamp THEN <<b>> \o s
    ELSE <<Head(s)>> \o InsertBuild(Tail(s), b)

RECURSIVE SortBuilds(_, _)
SortBuilds(file, n) ==
    IF n = 0 THEN <<>>
    ELSE InsertBuild(SortBuilds(file, n - 1), file[n])

\* a mutant of from_disk: the records stay in file order
from_disk_file_order(file) == file

\* Manifest.from_disk: the records of the file (none when the file does not
\* exist), newest first
from_disk(file) == SortBuilds(file, Len(file))

\* Manifest.most_recent_matching
most_recent_matching(builds, build_config) ==
    LET matching == { i \in DOMAIN builds :
                        to_config(builds[i]) = build_config }
    IN  IF matching = {} THEN <<>>
        ELSE <<builds[CHOOSE i \in matching : \A j \in matching : i <= j]>>

\* a mutant of must_force: the set of rebuilt configurations is not looked at
must_force_every_call(force_rebuilt, build_config) == ~force_rebuilt.is_none

\* a mutant of must_force: the cache is bypassed on every call
must_force_always(force_rebuilt, build_config) == TRUE

\* force_rebuilt is not None and build_config not in force_rebuilt
must_force(force_rebuilt, build_config) ==
    ~force_rebuilt.is_none /\ build_config \notin force_rebuilt.configs

\* a mutant of rebuilt_add: the configuration is not remembered
rebuilt_forgotten(force_rebuilt, build_config) == force_rebuilt

\* force_rebuilt.add(build_config)
rebuilt_add(force_rebuilt, build_config) ==
    [force_rebuilt EXCEPT !.configs = @ \cup {build_config}]

\* a mutant of after_build: the missing build is returned as None
after_build_unchecked(build) == "none"

\* if build is None: raise RuntimeError(...)
after_build(build) == IF build = <<>> THEN "RuntimeError" ELSE "none"

\* "packer build" with the variables of build_config: the image builder
\* appends a record of the build to manifest.json, stamped with its
\* build_time; a broken build script leaves the manifest as it was
packer_build(file, build_config, outcome, build_time) ==
    IF outcome = "produced"
    THEN Append(file, Build(build_time, Len(file) + 1, build_config))
    ELSE file

Shas == {"0a1b2c3"}

\* the configurations infra() asks for: the instance type comes from the
\* Environment, the revision from git, the profile from the command line
ConfigPool ==
    { Config(it, sha, "release") :
        it \in {InstanceTypes[1], InstanceTypes[2]}, sha \in Shas }

\* the configurations of the records a manifest may hold when a run begins
ManifestConfigPool ==
    ConfigPool \cup { Config(InstanceTypes[1], sha, "debug") : sha \in Shas }

\* the manifests a run may begin with: the file's records in file order
ManifestPool ==
    UNION { { [i \in 1..k |-> Build(f[i][1], i, f[i][2])] :
                f \in [1..k -> (1..MaxTime) \X ManifestConfigPool] } :
            k \in 0..MaxManifest }

(***************************************************************************)
(* State.                                                                  *)
(***************************************************************************)
VARIABLES
    all_experiments,  \* main: the experiment list read from the file
    cleanup,          \* args.cleanup
    groups,           \* run_experiments: experiments_by_environment(...)
    pc,               \* position of the main coroutine
    gi,               \* index of the current group (for environment, ...)
    ei,               \* index of the current experiment within the group
    live,             \* a Setting (connected fleet) is live
    attempt,          \* retry_experiment: the for-loop variable
    interrupted,      \* retry_experiment: interrupted
    ctrl_c,           \* the asyncio.Event set by the signal handler
    task,             \* experiment_task: none, running, ok, err, cancelling
    error_log,        \* number of tracebacks in error.log
    results,          \* the records handed to writer, in order: each the
                      \* experiment of a Result (its time is left out)
    provisioned,      \* the environments terraform was applied for, in order
    teardowns,        \* the variable maps "terraform destroy" was run with
    exc,              \* the exception propagating, or "none"
    exit_code,        \* exit status of the process once pc = "exited"
    \* history of the current trial
    started,          \* run() tasks created
    sigs,             \* signals handled while the trial was suspended
    run_outcomes,     \* how each finished run() task ended
    log0,             \* error_log when the trial began
    flag_found,       \* whether ctrl_c was set when the attempt's
                      \* ctrl_c.clear() ran
    res0,             \* Len(results) when the trial began
    written,          \* the attempts whose value was handed to writer
    \* history of the run
    exhausted,        \* trials that returned without writing a Result
    \* the build cache
    manifest,         \* the records of manifest.json, in file order
    force_rebuilt,    \* run_experiments: the rebuilt-set, or None
    packer_builds,    \* the configurations "packer build" was run for
    calls,            \* the calls of ensure_ami_build made so far
    build_exc,        \* the exception that left ensure_ami_build, or "none"
    \* the SSH connections of infra(); a connection is named by the index
    \* of its machine in [publisher] + workers + clients
    pending,          \* connections being opened (tasks of the gather)
    open_conns,       \* connections that are open
    opened,           \* number of connections opened during the run
    closed,           \* number of connections closed during the run
    unreachable,      \* machines that never answer or never finish booting
    waiting,          \* connections in the wait between two tries
    \* the order of the trials
    trials_started,   \* the experiments whose trial was started, in order
    trials_ended,     \* number of trials that have ended
    bootstraps,       \* number of times the fleet bootstrap was run
    in_flight,        \* run() tasks created and not yet finished
    \* the results sink (stream_json)
    out_file,         \* what has reached the file: a sequence of tokens
    out_buffer,       \* what was written and not yet flushed
    first,            \* stream_json: first
    \* the provisioner: tf.state is what terraform's state file says is
    \* deployed, tf.initialized whether "terraform init" has been run in
    \* tf_dir, tf.calls the calls of cloud.terraform made so far
    tf,
    \* Setting.from_dict: the call (system, machines) and its result
    from_dict_call,
    \* one call of spectrum's Experiment.run: where its coroutine stands,
    \* how _inner_run ended, and the state of each stop command
    run_call,
    \* one call of express's Experiment.run: where its coroutine stands, the
    \* shutdown event, and the state of each process task
    express_call,
    \* one call of a function that has no effect: its name, its arguments and
    \* what it returned or raised (<<>> before the call)
    pure_call,
    \* one use of stream_json on its own: its close argument, where the with
    \* statement stands, whether the file is closed, and the records handed
    \* to the writer
    stream_call

inputVars == <<all_experiments, cleanup>>

loopVars == <<groups, gi, ei, live>>

trialVars == <<attempt, interrupted, task>>

outVars == <<error_log, results, provisioned, teardowns>>

exitVars == <<exc, exit_code>>

histVars ==
    <<started, sigs, run_outcomes, log0, flag_found, res0, written,
      exhausted>>

buildVars == <<manifest, force_rebuilt, packer_builds, calls, build_exc>>

connVars == <<pending, open_conns, opened, closed, unreachable, waiting>>

orderVars == <<trials_started, trials_ended, bootstraps>>

streamVars == <<out_file, out_buffer, first>>

\* the state of the parts that are modelled on their own
sideVars == <<tf, from_dict_call, run_call, express_call, pure_call, stream_call>>

vars ==
    <<inputVars, loopVars, trialVars, outVars, exitVars, histVars, pc, ctrl_c,
      buildVars, connVars, orderVars, in_flight, streamVars, sideVars>>

InitRest ==
    /\ groups = <<>>
    /\ pc = "start"
    /\ gi = 0
    /\ ei = 0
    /\ live = FALSE
    /\ attempt = 0
    /\ interrupted = FALSE
    /\ ctrl_c = FALSE
    /\ task = "none"
    /\ error_log = 0
    /\ results = <<>>
    /\ provisioned = <<>>
    /\ teardowns = <<>>
    /\ exc = "none"
    /\ exit_code = 0
    /\ started = 0
    /\ sigs = 0
    /\ run_outcomes = <<>>
    /\ log0 = 0
    /\ flag_found = FALSE
    /\ res0 = 0
    /\ written = <<>>
    /\ exhausted = 0
    /\ pending = {}
    /\ open_conns = {}
    /\ opened = 0
    /\ closed = 0
    /\ unreachable = {}
    /\ waiting = {}
    /\ trials_started = <<>>
    /\ trials_ended = 0
    /\ bootstraps = 0
    /\ in_flight = 0
    /\ out_file = <<>>
    /\ out_buffer = <<>>
    /\ first = TRUE

\* nothing is deployed and no call of cloud.terraform has been made
InitNoTerraform ==
    tf = [state |-> [applied |-> {}, partial |-> FALSE],
          initialized |-> TRUE,
          calls |-> <<>>]

\* no call of Setting.from_dict is looked at
InitNoFromDict ==
    from_dict_call = [system |-> "spectrum", machines |-> {}, result |-> <<>>]

\* no call of spectrum's Experiment.run is looked at
InitNoRun ==
    run_call = [workers |-> 0, clients |-> 0, phase |-> "done",
                exit |-> "none", cancelled |-> FALSE, stops |-> <<>>,
                result |-> "none"]

\* no call of express's Experiment.run is looked at
InitNoExpress ==
    express_call = [clients |-> 0, phase |-> "done", shutdown |-> FALSE,
                    cancelled |-> FALSE, procs |-> <<>>, result |-> "none",
                    next_started |-> FALSE]

\* no call of a function without effect is looked at
InitNoPure ==
    pure_call = [fn |-> "none", args |-> <<>>, result |-> <<>>]

\* stream_json is not looked at on its own
InitNoStream ==
    stream_call = [close |-> TRUE, phase |-> "none", closed |-> FALSE,
                   handed |-> <<>>]

\* no call of ensure_ami_build has been made
InitNoBuild ==
    /\ packer_builds = <<>>
    /\ calls = <<>>
    /\ build_exc = "none"

Init ==
    /\ all_experiments \in SeqsUpTo(RunPool, MaxRunExperiments)
    /\ cleanup \in BOOLEAN
    /\ InitRest
    /\ manifest = <<>>
    /\ force_rebuilt = [is_none |-> TRUE, configs |-> {}]
    /\ InitNoBuild
    /\ InitNoTerraform
    /\ InitNoRun
    /\ InitNoExpress
    /\ InitNoPure
    /\ InitNoStream
    /\ InitNoFromDict

InitGroup ==
    /\ all_experiments \in SeqsUpTo(ExperimentPool, MaxExperiments)
    /\ cleanup = FALSE
    /\ InitRest
    /\ manifest = <<>>
    /\ force_rebuilt = [is_none |-> TRUE, configs |-> {}]
    /\ InitNoBuild
    /\ InitNoTerraform
    /\ InitNoRun
    /\ InitNoExpress
    /\ InitNoPure
    /\ InitNoStream
    /\ InitNoFromDict

\* force_rebuilt = set() if force_rebuild else None, with any manifest on disk
InitBuild ==
    /\ all_experiments = <<>>
    /\ cleanup = FALSE
    /\ InitRest
    /\ manifest \in ManifestPool
    /\ \E force_rebuild \in BOOLEAN :
          force_rebuilt = [is_none |-> ~force_rebuild, configs |-> {}]
    /\ InitNoBuild
    /\ InitNoTerraform
    /\ InitNoRun
    /\ InitNoExpress
    /\ InitNoPure
    /\ InitNoStream
    /\ InitNoFromDict

\* The frame of retry_experiment is gone (it returned, or an exception left
\* it): its locals and the history kept of the trial no longer exist.
FrameDropped ==
    /\ attempt' = 0
    /\ interrupted' = FALSE
    /\ task' = "none"
    /\ started' = 0
    /\ sigs' = 0
    /\ run_outcomes' = <<>>
    /\ log0' = 0
    /\ flag_found' = FALSE
    /\ res0' = 0
    /\ written' = <<>>

(***************************************************************************)
(* run_experiments (experiments/run.py).                                   *)
(***************************************************************************)
\* The results file is a sequence of tokens: the JSON text of one record,
\* written as the (positive) position of its experiment in the list, or
\* one of the three pieces of punctuation stream_json writes.
\* file.write("[\n")
OpenToken == 0

\* file.write(",\n")
SepToken == 0 - 1

\* file.write("\n]\n")
CloseToken == 0 - 2

\* a mutant of experiment_at: the inner loop runs over the list reversed
experiment_from_end(gs, g, k) ==
    gs[g].experiments[Len(gs[g].experiments) + 1 - k]

\* "for experiment in experiments": the experiment of the k-th iteration
\* of the inner loop in group g
experiment_at(gs, g, k) == gs[g].experiments[k]

\* main enters stream_json (file.write("[\n")) and calls run_experiments:
\* force_rebuilt = ...; entering the cleanup context; the scheduler
RunStart ==
    /\ UNCHANGED <<orderVars, in_flight, first, out_file>>
    /\ UNCHANGED sideVars
    /\ out_buffer' = Append(out_buffer, OpenToken)
    /\ UNCHANGED <<buildVars, connVars>>
    /\ pc = "start"
    /\ groups' = experiments_by_environment(all_experiments)
    /\ pc' = "group_next"
    /\ UNCHANGED <<inputVars, gi, ei, live, trialVars, outVars, exitVars,
                   histVars, ctrl_c>>

\* for environment, experiments in experiments_by_environment(...)
GroupNext ==
    /\ pc = "group_next"
    /\ UNCHANGED sideVars
    /\ UNCHANGED <<orderVars, in_flight, streamVars>>
    /\ UNCHANGED <<buildVars, connVars>>
    /\ IF gi < Len(groups)
       THEN /\ gi' = gi + 1
            /\ ei' = 0
            /\ pc' = "infra"
       ELSE /\ pc' = "cleanup"
            /\ UNCHANGED <<gi, ei>>
    /\ UNCHANGED <<inputVars, groups, live, trialVars, outVars, exitVars,
                   histVars, ctrl_c>>

\* infra(), up to and including cloud.terraform: blocking calls, no await.
\* The image build may fail before terraform is invoked; terraform may fail.
Infra ==
    /\ pc = "infra"
    /\ UNCHANGED sideVars
    /\ UNCHANGED <<orderVars, in_flight, streamVars>>
    /\ UNCHANGED buildVars
    /\ \E outcome \in {"ok", "build_failed", "terraform_failed"} :
          /\ provisioned' =
                 IF outcome = "build_failed" THEN provisioned
                 ELSE Append(provisioned, groups[gi].environment)
          /\ IF outcome = "ok"
             THEN \* one _connect_ssh context per machine (conn_ctxs); the
                  \* gather makes a task of each enter_async_context
                  /\ pc' = "connect"
                  /\ pending' = 1..total_machines(groups[gi].environment)
                  /\ UNCHANGED exc
             ELSE /\ pc' = "cleanup"
                  /\ exc' = "InfraError"
                  /\ UNCHANGED pending
    /\ UNCHANGED <<open_conns, opened, closed, unreachable, waiting>>
    /\ UNCHANGED <<inputVars, loopVars, trialVars, error_log, results,
                   teardowns, exit_code, histVars, ctrl_c>>

\* one task of the gather finishes stack.enter_async_context: the machine
\* answered and has booted, the connection is open and the exit stack holds
\* its context.  A failed try is tried again after 2 seconds, without
\* bound (AsyncRetrying(wait=wait_fixed(2))), so the task never fails.
ConnOpened ==
    /\ pc = "connect"
    /\ UNCHANGED sideVars
    /\ UNCHANGED <<orderVars, in_flight, streamVars>>
    /\ \E c \in pending \ (unreachable \cup waiting) :
          /\ pending' = pending \ {c}
          /\ open_conns' = open_conns \cup {c}
    /\ opened' = opened + 1
    /\ UNCHANGED <<inputVars, loopVars, trialVars, outVars, exitVars,
                   histVars, pc, ctrl_c, buildVars, closed, unreachable,
                   waiting>>

\* a try of one connection fails (asyncssh.connect raises, or the test for
\* /var/lib/cloud/instance/boot-finished fails).  AsyncRetrying is given
\* wait=wait_fixed(2) and no stop condition (tenacity's default is
\* stop_never): however many tries have failed, the task sleeps 2 seconds
\* and tries again.
ConnFailed ==
    /\ pc = "connect"
    /\ UNCHANGED sideVars
    /\ \E c \in pending \ waiting :
          /\ waiting' = waiting \cup {c}
    /\ UNCHANGED <<inputVars, loopVars, trialVars, outVars, exitVars,
                   histVars, pc, ctrl_c, buildVars, pending, open_conns,
                   opened, closed, unreachable, orderVars, in_flight,
                   streamVars>>

\* the sleep of a connection is over: the next try begins
ConnRetry ==
    /\ pc = "connect"
    /\ UNCHANGED sideVars
    /\ \E c \in waiting : waiting' = waiting \ {c}
    /\ UNCHANGED <<inputVars, loopVars, trialVars, outVars, exitVars,
                   histVars, pc, ctrl_c, buildVars, pending, open_conns,
                   opened, closed, unreachable, orderVars, in_flight,
                   streamVars>>

\* a mutant of gather_done: the gather returns without its tasks
gather_not_awaited(tasks) == TRUE

\* await asyncio.gather(...): whether the gather can return, tasks being the
\* tasks that have not finished
gather_done(tasks) == tasks = {}

\* await asyncio.gather(*map(stack.enter_async_context, conn_ctxs)) returns
\* once every task has finished; then environment.to_setup(machines)
Connect ==
    /\ pc = "connect"
    /\ UNCHANGED sideVars
    /\ UNCHANGED <<orderVars, in_flight, streamVars>>
    /\ UNCHANGED <<buildVars, connVars>>
    /\ gather_done(pending)
    /\ \E ok \in BOOLEAN :
          IF ok
          THEN /\ live' = TRUE
               /\ pc' = "etcd"
               /\ UNCHANGED exc
          ELSE /\ pc' = "raise"
               /\ exc' = "InfraError"
               /\ UNCHANGED live
    /\ UNCHANGED <<inputVars, groups, gi, ei, trialVars, outVars, exit_code,
                   histVars, ctrl_c>>

\* starting etcd on the publisher and polling it until healthy
StartEtcd ==
    /\ pc = "etcd"
    /\ UNCHANGED sideVars
    /\ UNCHANGED <<trials_started, trials_ended, in_flight, streamVars>>
    /\ bootstraps' = bootstraps + 1
    /\ UNCHANGED <<buildVars, connVars>>
    /\ \E ok \in BOOLEAN :
          IF ok
          THEN /\ pc' = "exp_next"
               /\ UNCHANGED exc
          ELSE /\ pc' = "raise"
               /\ exc' = "InfraError"
    /\ UNCHANGED <<inputVars, loopVars, trialVars, outVars, exit_code,
                   histVars, ctrl_c>>

\* for experiment in experiments: ... retry_experiment(...) is entered
\* (interrupted = False), or the group's scope is left
ExpNext ==
    /\ pc = "exp_next"
    /\ UNCHANGED sideVars
    /\ UNCHANGED <<in_flight, streamVars>>
    /\ UNCHANGED <<buildVars, connVars>>
    /\ IF ei < Len(groups[gi].experiments)
       THEN /\ ei' = ei + 1
            /\ trials_started' =
                   Append(trials_started, experiment_at(groups, gi, ei + 1))
            /\ attempt' = 0
            /\ interrupted' = FALSE
            /\ task' = "none"
            /\ started' = 0
            /\ sigs' = 0
            /\ run_outcomes' = <<>>
            /\ log0' = error_log
            /\ flag_found' = FALSE
            /\ res0' = Len(results)
            /\ written' = <<>>
            /\ pc' = "loop"
       ELSE /\ pc' = "close"
            /\ UNCHANGED <<ei, trialVars, started, sigs, run_outcomes,
                           log0, flag_found, res0, written, trials_started>>
    /\ UNCHANGED <<trials_ended, bootstraps>>
    /\ UNCHANGED <<inputVars, groups, gi, live, outVars, exitVars, exhausted,
                   ctrl_c>>

\* a mutant of exit_stack_open: no exit stack, nothing is closed
exit_stack_leaks(conns, exception) == conns

\* a mutant of exit_stack_open: the connections are closed after the body
\* instead of by the exit stack, so only when no exception left it
exit_stack_on_success(conns, exception) ==
    IF exception = "none" THEN {} ELSE conns

\* AsyncExitStack.__aexit__: every context the stack holds is exited,
\* whether or not an exception left the body; _connect_ssh catches what is
\* thrown into it, leaves "async with asyncssh.connect(...)" (which closes
\* the connection) and raises it again.  The connections left open:
exit_stack_open(conns, exception) == {}

\* leaving "async with infra(...)" normally: the exit stack closes the
\* connections
Close ==
    /\ pc = "close"
    /\ UNCHANGED sideVars
    /\ UNCHANGED <<orderVars, in_flight, streamVars>>
    /\ UNCHANGED <<buildVars, pending, opened, unreachable, waiting>>
    /\ open_conns' = exit_stack_open(open_conns, exc)
    /\ closed' = closed + Cardinality(open_conns \ open_conns')
    /\ live' = FALSE
    /\ pc' = "group_next"
    /\ UNCHANGED <<inputVars, groups, gi, ei, trialVars, outVars, exitVars,
                   histVars, ctrl_c>>

\* an exception leaves "async with infra(...)": the exit stack closes the
\* connections and the exception goes on
RaiseThroughInfra ==
    /\ pc = "raise"
    /\ UNCHANGED sideVars
    /\ UNCHANGED <<trials_started, bootstraps, in_flight, streamVars>>
    /\ UNCHANGED <<buildVars, pending, opened, unreachable, waiting>>
    /\ open_conns' = exit_stack_open(open_conns, exc)
    /\ closed' = closed + Cardinality(open_conns \ open_conns')
    /\ live' = FALSE
    /\ pc' = "cleanup"
    /\ trials_ended' = Len(trials_started)
    /\ FrameDropped
    /\ UNCHANGED <<inputVars, groups, gi, ei, outVars, exitVars, exhausted,
                   ctrl_c>>

\* Environment.make_tf_vars (the image and the revision are left out)
make_tf_vars(environment) ==
    [region |-> AWS_REGION,
     instance_type |-> environment.instance_type,
     client_machine_count |-> environment.client_machines,
     worker_machine_east_count |-> environment.worker_machines_east,
     worker_machine_west_count |-> environment.worker_machines_west,
     sha |-> "null"]

\* a mutant of make_tf_cleanup_vars: the variables last applied
last_tf_vars ==
    IF provisioned = <<>>
    THEN make_tf_vars([instance_type |-> DEFAULT_INSTANCE_TYPE,
                       client_machines |-> 0,
                       worker_machines_east |-> 0,
                       worker_machines_west |-> 0])
    ELSE make_tf_vars(provisioned[Len(provisioned)])

\* Environment.make_tf_cleanup_vars
make_tf_cleanup_vars ==
    [region |-> AWS_REGION,
     instance_type |-> DEFAULT_INSTANCE_TYPE,
     client_machine_count |-> 0,
     worker_machine_east_count |-> 0,
     worker_machine_west_count |-> 0,
     sha |-> "null"]

\* a mutant of cleanup_runs: the teardown follows the body instead of
\* standing in a finally block
cleanup_runs_on_success(requested, exception) ==
    requested /\ exception = "none"

\* cloud.cleanup is entered only when cleanup was requested; its teardown
\* stands in a finally block, so it runs whatever left the body
cleanup_runs(requested, exception) == requested

\* leaving "with cloud.cleanup(...) if cleanup else nullcontext()":
\* terraform destroy (check_call) is run and may fail
Cleanup ==
    /\ pc = "cleanup"
    /\ UNCHANGED sideVars
    /\ UNCHANGED <<orderVars, in_flight, streamVars>>
    /\ UNCHANGED <<buildVars, connVars>>
    /\ IF cleanup_runs(cleanup, exc)
       THEN /\ teardowns' = Append(teardowns, make_tf_cleanup_vars)
            /\ \E ok \in BOOLEAN :
                  exc' = IF ok THEN exc ELSE "TeardownError"
       ELSE UNCHANGED <<teardowns, exc>>
    /\ pc' = "main"
    /\ UNCHANGED <<inputVars, loopVars, trialVars, error_log, results,
                   provisioned, exit_code, histVars, ctrl_c>>

(***************************************************************************)
(* main (experiments/__main__.py): KeyboardInterrupt is swallowed, any     *)
(* other exception leaves asyncio.run and ends the process with status 1.  *)
(***************************************************************************)
MainExit ==
    /\ pc = "main"
    /\ UNCHANGED sideVars
    /\ UNCHANGED <<orderVars, in_flight, first>>
    /\ UNCHANGED <<buildVars, connVars>>
    \* leaving stream_json: file.write("\n]\n") when no exception left the
    \* body, and closing(file) closes the file, which flushes it
    /\ out_file' = out_file \o out_buffer
                       \o (IF exc = "none" THEN <<CloseToken>>
                           ELSE <<>>)
    /\ out_buffer' = <<>>
    /\ exit_code' = IF exc \in {"none", "KeyboardInterrupt"} THEN 0 ELSE 1
    /\ pc' = "exited"
    /\ UNCHANGED <<inputVars, loopVars, trialVars, outVars, exc, histVars,
                   ctrl_c>>

(***************************************************************************)
(* retry_experiment (experiments/run.py).                                  *)
(***************************************************************************)
\* a mutant of HasNextAttempt: one iteration too many
HasNextAttemptOffByOne(a) == a <= MAX_ATTEMPTS

\* for attempt in range(1, MAX_ATTEMPTS + 1): a is the last value taken
HasNextAttempt(a) == a < MAX_ATTEMPTS

\* a mutant of append_traceback: error.log opened with "w"
overwrite_traceback(log) == 1

\* with open("error.log", "a") as f: traceback.print_exc(file=f)
append_traceback(log) == log + 1

\* a mutant of after_success: the return is missing
after_success_fallthrough == "loop"

\* the "return" that ends retry_experiment after writer(...)
after_success == "returned"

\* a mutant of clear: the flag is left as it is
not_cleared(flag) == flag

\* ctrl_c.clear(), at the start of every attempt: the flag afterwards
clear(flag) == FALSE

\* the top of the for loop: the next attempt starts (create_task,
\* ctrl_c.clear(), asyncio.wait), or the loop is exhausted and
\* retry_experiment returns None
LoopNext ==
    /\ pc = "loop"
    /\ UNCHANGED sideVars
    /\ UNCHANGED <<orderVars, streamVars>>
    /\ UNCHANGED <<buildVars, connVars>>
    /\ IF HasNextAttempt(attempt)
       THEN /\ attempt' = attempt + 1
            /\ task' = "running"
            /\ flag_found' = ctrl_c
            /\ ctrl_c' = clear(ctrl_c)
            /\ started' = started + 1
            /\ in_flight' = in_flight + 1
            /\ pc' = "wait"
            /\ UNCHANGED exhausted
       ELSE /\ pc' = "returned"
            /\ exhausted' = exhausted + 1
            /\ UNCHANGED <<attempt, task, ctrl_c, started, in_flight,
                           flag_found>>
    /\ UNCHANGED <<inputVars, loopVars, interrupted, outVars, exitVars,
                   sigs, run_outcomes, log0, res0, written>>

\* the run() task finishes on its own: it returns or it raises
RunFinishes ==
    /\ pc = "wait"
    /\ UNCHANGED sideVars
    /\ UNCHANGED <<orderVars, streamVars>>
    /\ UNCHANGED <<buildVars, connVars>>
    /\ task = "running"
    /\ \E outcome \in {"ok", "err"} :
          /\ task' = outcome
          /\ run_outcomes' = Append(run_outcomes, outcome)
    /\ in_flight' = in_flight - 1
    /\ UNCHANGED <<inputVars, loopVars, attempt, interrupted, outVars,
                   exitVars, started, sigs, log0, flag_found, res0, written, exhausted,
                   pc, ctrl_c>>

\* the handler of SIGINT / SIGTERM: ctrl_c.set.  The loop runs it only
\* while the main coroutine is suspended.
Signal ==
    /\ pc \in {"connect", "etcd", "close", "raise", "wait", "unwind"}
    /\ UNCHANGED sideVars
    /\ UNCHANGED <<orderVars, in_flight, streamVars>>
    /\ UNCHANGED <<buildVars, connVars>>
    /\ ctrl_c' = TRUE
    /\ IF pc \in {"wait", "unwind"}
       THEN /\ sigs < MaxSignals
            /\ sigs' = sigs + 1
       ELSE UNCHANGED sigs
    /\ UNCHANGED <<inputVars, loopVars, trialVars, outVars, exitVars,
                   started, run_outcomes, log0, flag_found, res0, written, exhausted, pc>>

\* "if not interrupted: ... continue" / "raise KeyboardInterrupt"
AfterCancel ==
    IF ~interrupted
    THEN /\ interrupted' = TRUE
         /\ pc' = "loop"
         /\ UNCHANGED exc
    ELSE /\ exc' = "KeyboardInterrupt"
         /\ pc' = "raise"
         /\ UNCHANGED interrupted

\* a mutant of after_cancel: the cancelled task is not awaited
after_cancel_not_awaited == "loop"

\* experiment_task.cancel() on a task that is not done, followed by
\* "await experiment_task": the coroutine is suspended until the task has
\* finished unwinding
after_cancel == "unwind"

\* a mutant of flush: the record stays in the buffer
not_flushed(file, buffer) == <<file, buffer>>

\* file.flush(): what the file holds and what the buffer holds afterwards
flush(file, buffer) == <<file \o buffer, <<>>>>

\* a mutant of written_to: the separator is written before every record
written_to_sep_always(buffer, is_first, experiment) ==
    Append(Append(buffer, SepToken), experiment)

\* stream_json's writer(data), before the flush: what the buffer holds
written_to(buffer, is_first, experiment) ==
    Append(IF is_first THEN buffer ELSE Append(buffer, SepToken),
           experiment)

\* a mutant of is_set: the flag counts only while run() has not finished
is_set_and_running(flag, state) == flag /\ state = "running"

\* "if ctrl_c.is_set():" after asyncio.wait has returned; the state of
\* experiment_task is not looked at
is_set(flag, state) == flag

\* asyncio.wait returns (a task is done or the event is set) and the code
\* up to the next await, continue, return or raise runs
WaitReturns ==
    /\ pc = "wait"
    /\ UNCHANGED sideVars
    /\ UNCHANGED <<orderVars, in_flight>>
    /\ UNCHANGED <<buildVars, connVars>>
    /\ task # "running" \/ ctrl_c
    /\ IF is_set(ctrl_c, task)
       THEN \* experiment_task.cancel(); await experiment_task
            CASE task = "running" ->
                   /\ task' = "cancelling"
                   /\ pc' = after_cancel
                   /\ UNCHANGED <<interrupted, exc, error_log, results,
                                  written, streamVars>>
              [] task = "ok" ->
                   /\ AfterCancel
                   /\ UNCHANGED <<task, error_log, results, written,
                                  streamVars>>
              [] task = "err" ->
                   \* only asyncio.CancelledError is caught here
                   /\ exc' = "RunError"
                   /\ pc' = "raise"
                   /\ UNCHANGED <<task, interrupted, error_log, results,
                                  written, streamVars>>
       ELSE \* time = await experiment_task
            CASE task = "ok" ->
                   \* writer(asdict(Result(experiment, time)))
                   /\ results' = Append(results, experiment_at(groups, gi, ei))
                   /\ written' = Append(written, attempt)
                   /\ LET buffer == written_to(out_buffer, first,
                                               experiment_at(groups, gi, ei))
                      IN  /\ out_file' = flush(out_file, buffer)[1]
                          /\ out_buffer' = flush(out_file, buffer)[2]
                   /\ first' = FALSE
                   /\ pc' = after_success
                   /\ UNCHANGED <<task, interrupted, exc, error_log>>
              [] task = "err" ->
                   /\ error_log' = append_traceback(error_log)
                   /\ pc' = "loop"
                   /\ UNCHANGED <<task, interrupted, exc, results, written,
                                  streamVars>>
    /\ UNCHANGED <<inputVars, loopVars, attempt, provisioned, teardowns,
                   exit_code, started, sigs, run_outcomes, log0, flag_found, res0,
                   exhausted, ctrl_c>>

\* the cancelled run() finishes unwinding: CancelledError comes out of it,
\* or an exception raised by its cleanup block does
Unwound ==
    /\ pc = "unwind"
    /\ UNCHANGED sideVars
    /\ UNCHANGED <<orderVars, streamVars>>
    /\ UNCHANGED <<buildVars, connVars>>
    /\ \E outcome \in {"cancelled", "err"} :
          /\ task' = outcome
          /\ run_outcomes' = Append(run_outcomes, outcome)
          /\ IF outcome = "cancelled"
             THEN AfterCancel
             ELSE /\ exc' = "RunError"
                  /\ pc' = "raise"
                  /\ UNCHANGED interrupted
    /\ in_flight' = in_flight - 1
    /\ UNCHANGED <<inputVars, loopVars, attempt, outVars, exit_code,
                   started, sigs, log0, flag_found, res0, written, exhausted, ctrl_c>>

\* retry_experiment has returned; back in the loop over the experiments
TrialReturned ==
    /\ pc = "returned"
    /\ UNCHANGED sideVars
    /\ UNCHANGED <<trials_started, bootstraps, in_flight, streamVars>>
    /\ UNCHANGED <<buildVars, connVars>>
    /\ pc' = "exp_next"
    /\ trials_ended' = trials_ended + 1
    /\ FrameDropped
    /\ UNCHANGED <<inputVars, loopVars, outVars, exitVars, exhausted, ctrl_c>>

(***************************************************************************)
(* ensure_ami_build (experiments/packer.py), as infra() calls it once per  *)
(* Environment group of a run.  The call is synchronous: nothing else runs *)
(* between its first and its last line.  An exception that leaves it ends  *)
(* the run, so no call follows it.                                         *)
(***************************************************************************)
EnsureAmiBuild ==
    /\ build_exc = "none"
    /\ UNCHANGED sideVars
    /\ UNCHANGED <<orderVars, in_flight, streamVars>>
    /\ Len(calls) < MaxCalls
    /\ \E build_config \in ConfigPool,
          outcome \in {"failed", "nothing", "produced"},
          build_time \in 1..MaxTime :
          LET builds == from_disk(manifest)
              build == most_recent_matching(builds, build_config)
              force_rebuild == must_force(force_rebuilt, build_config)
          IN  /\ force_rebuilt' =
                     IF force_rebuild
                     THEN rebuilt_add(force_rebuilt, build_config)
                     ELSE force_rebuilt
              /\ IF build # <<>> /\ ~force_rebuild
                 THEN \* return build
                      /\ outcome = "nothing"
                      /\ build_time = 1
                      /\ calls' = Append(calls,
                             [config |-> build_config,
                              file |-> manifest,
                              file_after |-> manifest,
                              invocations |-> 0,
                              result |-> build,
                              error |-> "none"])
                      /\ UNCHANGED <<manifest, packer_builds, build_exc>>
                 ELSE \* git archive and packer build (check_call), then
                      \* the manifest is read again
                      LET file1 == packer_build(manifest, build_config,
                                                outcome, build_time)
                          build1 == most_recent_matching(from_disk(file1),
                                                         build_config)
                          err == IF outcome = "failed"
                                 THEN "CalledProcessError"
                                 ELSE after_build(build1)
                      IN  /\ manifest' = file1
                          /\ packer_builds' =
                                 Append(packer_builds, build_config)
                          /\ build_exc' = err
                          /\ calls' = Append(calls,
                                 [config |-> build_config,
                                  file |-> manifest,
                                  file_after |-> file1,
                                  invocations |-> 1,
                                  result |-> build1,
                                  error |-> err])
    /\ UNCHANGED <<inputVars, loopVars, trialVars, outVars, exitVars,
                   histVars, pc, ctrl_c, connVars>>

Next ==
    \/ RunStart
    \/ GroupNext
    \/ Infra
    \/ ConnOpened
    \/ Connect
    \/ StartEtcd
    \/ ExpNext
    \/ LoopNext
    \/ RunFinishes
    \/ Signal
    \/ WaitReturns
    \/ Unwound
    \/ TrialReturned
    \/ Close
    \/ RaiseThroughInfra
    \/ Cleanup
    \/ MainExit

Spec == Init /\ [][Next]_vars

\* a run of two trials
InitPair ==
    /\ Init
    /\ Len(all_experiments) = 2

\* The run loop on two trials.  The event loop does not stop while a step
\* can be taken.
SpecPair == InitPair /\ [][Next]_vars /\ WF_vars(Next)

\* the scheduler alone, on every experiment list up to MaxExperiments
SpecGroup == InitGroup /\ [][RunStart]_vars

\* the build cache alone: the calls of one run, on every manifest up to
\* MaxManifest records, with and without --force-rebuild
SpecBuild == InitBuild /\ [][EnsureAmiBuild]_vars

\* a caller of ensure_ami_build that handles the exception of a call and
\* goes on (infra() does not: there the exception ends the run)
ErrorCaught ==
    /\ build_exc # "none"
    /\ build_exc' = "none"
    /\ UNCHANGED sideVars
    /\ UNCHANGED <<inputVars, loopVars, trialVars, outVars, exitVars,
                   histVars, pc, ctrl_c, connVars, orderVars, in_flight,
                   streamVars, manifest, force_rebuilt, packer_builds,
                   calls>>

NextBuildCaught ==
    \/ EnsureAmiBuild
    \/ ErrorCaught

\* force_rebuilt = set(): the run was started with force-rebuild
InitBuildForced ==
    /\ InitBuild
    /\ ~force_rebuilt.is_none

\* calls of ensure_ami_build on one force_rebuilt set, going on after a
\* call that raised
SpecBuildCaught == InitBuildForced /\ [][NextBuildCaught]_vars

(***************************************************************************)
(* cloud.terraform (experiments/cloud.py).  terraform itself is modelled   *)
(* by what it documents: "plan" lists the changes between the variables    *)
(* and the state, and fails with a message naming "terraform init" in a    *)
(* directory that was never initialized; "apply" carries a plan out and    *)
(* leaves a part of it behind when it fails; "output" reads the state.     *)
(***************************************************************************)
\* the variable maps the program calls terraform with
TfVarsPool ==
    { make_tf_vars(to_environment(x)) : x \in RunPool }

\* nothing deployed, or the variables the deployed fleet was made from;
\* partial: an apply failed and left a part of its plan behind
TfState(applied, partial) == [applied |-> applied, partial |-> partial]

\* changes = [l for l in plan_output ... if l.lstrip().startswith("#")]:
\* whether the plan lists a change
changes(state, tf_vars) == state.partial \/ state.applied # {tf_vars}

\* a mutant of needs_init: every failed plan is answered by "terraform init"
needs_init_always(plan_outcome) == TRUE

\* "terraform init" in err.output.decode("utf8")
needs_init(plan_outcome) == plan_outcome = "uninitialized"

\* a mutant of apply_needed: the plan is applied whatever it lists
apply_always(has_changes) == TRUE

\* "if changes:" before the apply step
apply_needed(has_changes) == has_changes

\* json.loads(check_output(["terraform", "output", "-json"])) and the map
\* made of it
output_map(state) == state.applied

\* One call of cloud.terraform, from its first line to the yield or to the
\* exception that leaves it.  plan1, init, plan2, apply and output are what
\* the steps do if they are run.
Terraform ==
    /\ Len(tf.calls) < MaxTfCalls
    /\ \E tf_vars \in TfVarsPool,
          plan1 \in {"ok", "uninitialized", "no_image", "error"},
          init \in {"ok", "error"},
          plan2 \in {"ok", "error"},
          apply \in {"ok", "error"},
          output \in {"ok", "error"} :
          \* a plan fails for want of "terraform init" exactly in a
          \* directory that was never initialized
          /\ (plan1 = "uninitialized") <=> ~tf.initialized
          /\ LET retried == plan1 # "ok" /\ needs_init(plan1)
                 init_ok == retried /\ init = "ok"
                 plan_steps ==
                     IF ~retried THEN <<"plan">>
                     ELSE IF init_ok THEN <<"plan", "init", "plan">>
                     ELSE <<"plan", "init">>
                 \* the exception that leaves the plan step, or "none"
                 plan_exc ==
                     IF plan1 = "ok" THEN "none"
                     ELSE IF retried
                     THEN IF init_ok /\ plan2 = "ok"
                          THEN "none"
                          ELSE "CalledProcessError"
                     ELSE IF plan1 = "no_image" THEN "NoImageError"
                     ELSE "CalledProcessError"
                 applies ==
                     plan_exc = "none"
                         /\ apply_needed(changes(tf.state, tf_vars))
                 apply_exc ==
                     IF applies /\ apply = "error"
                     THEN "CalledProcessError" ELSE plan_exc
                 state ==
                     IF ~applies THEN tf.state
                     ELSE IF apply = "ok" THEN TfState({tf_vars}, FALSE)
                     ELSE TfState(tf.state.applied, TRUE)
                 outputs == apply_exc = "none"
                 exception ==
                     IF outputs /\ output = "error"
                     THEN "CalledProcessError" ELSE apply_exc
                 steps ==
                     plan_steps
                         \o (IF applies THEN <<"apply">> ELSE <<>>)
                         \o (IF outputs THEN <<"output">> ELSE <<>>)
             IN  tf' = [state |-> state,
                        initialized |-> tf.initialized \/ init_ok,
                        calls |->
                            Append(tf.calls,
                                   [tf_vars |-> tf_vars,
                                    plan1 |-> plan1,
                                    steps |-> steps,
                                    exception |-> exception,
                                    data |-> IF exception = "none"
                                             THEN output_map(state)
                                             ELSE {}])]
    /\ UNCHANGED <<inputVars, loopVars, trialVars, outVars, exitVars,
                   histVars, pc, ctrl_c, buildVars, connVars, orderVars,
                   in_flight, streamVars, from_dict_call, run_call, express_call, pure_call, stream_call>>

\* the tf_dir may or may not have been initialized before the first call
InitTerraform ==
    /\ all_experiments = <<>>
    /\ cleanup = FALSE
    /\ InitRest
    /\ manifest = <<>>
    /\ force_rebuilt = [is_none |-> TRUE, configs |-> {}]
    /\ InitNoBuild
    /\ \E initialized \in BOOLEAN :
          tf = [state |-> TfState({}, FALSE),
                initialized |-> initialized,
                calls |-> <<>>]
    /\ InitNoFromDict
    /\ InitNoRun
    /\ InitNoExpress
    /\ InitNoPure
    /\ InitNoStream

\* the provisioner alone: calls of cloud.terraform one after the other
SpecTerraform == InitTerraform /\ [][Terraform]_vars

(***************************************************************************)
(* Setting.from_dict of the four systems.  The map is given by its keys:   *)
(* a key is <<name>> for a string and <<name, index>> for a tuple, and the *)
(* machine of a key is named by the key.  None is <<>>, a machine <<key>>. *)
(***************************************************************************)
\* the keys of machines whose ident[0] is role
with_role(machines, role) ==
    { ident \in machines : Len(ident) = 2 /\ ident[1] = role }

\* the value a named machine has after the loop
named(machines, name) ==
    IF <<name>> \in machines THEN <<<<name>>>> ELSE <<>>

\* whether the loop meets a key that no branch takes
invalid(machines, names, roles) ==
    \E ident \in machines :
        /\ ~(Len(ident) = 1 /\ ident[1] \in names)
        /\ ~(Len(ident) = 2 /\ ident[1] \in roles)

\* spectrum.Setting.from_dict
spectrum_from_dict(machines) ==
    IF invalid(machines, {"publisher"},
               {"worker_east", "worker_west", "client"})
    THEN [exception |-> "ValueError", setting |-> <<>>]
    ELSE IF named(machines, "publisher") = <<>>
    THEN [exception |-> "ValueError", setting |-> <<>>]
    ELSE [exception |-> "none",
          setting |-> <<[publisher |-> named(machines, "publisher"),
                         workers_east |-> with_role(machines, "worker_east"),
                         workers_west |-> with_role(machines, "worker_west"),
                         clients |-> with_role(machines, "client")]>>]

\* express.Setting.from_dict
express_from_dict(machines) ==
    IF invalid(machines, {"serverA", "serverB"}, {"client"})
    THEN [exception |-> "ValueError", setting |-> <<>>]
    ELSE [exception |-> "none",
          setting |-> <<[clients |-> with_role(machines, "client"),
                         server_a |-> named(machines, "serverA"),
                         server_b |-> named(machines, "serverB")]>>]

\* riposte.Setting.from_dict
riposte_from_dict(machines) ==
    IF invalid(machines, {"leader", "server", "auditor"}, {"client"})
    THEN [exception |-> "ValueError", setting |-> <<>>]
    ELSE IF \/ named(machines, "leader") = <<>>
            \/ named(machines, "server") = <<>>
            \/ named(machines, "auditor") = <<>>
            \/ with_role(machines, "client") = {}
    THEN [exception |-> "ValueError", setting |-> <<>>]
    ELSE [exception |-> "none",
          setting |-> <<[clients |-> with_role(machines, "client"),
                         leader |-> named(machines, "leader"),
                         server |-> named(machines, "server"),
                         auditor |-> named(machines, "auditor")]>>]

\* dissent.Setting.from_dict
dissent_from_dict(machines) ==
    IF invalid(machines, {"server0", "server1"}, {"client"})
    THEN [exception |-> "ValueError", setting |-> <<>>]
    ELSE IF \/ named(machines, "server0") = <<>>
            \/ named(machines, "server1") = <<>>
            \/ with_role(machines, "client") = {}
    THEN [exception |-> "ValueError", setting |-> <<>>]
    ELSE [exception |-> "none",
          setting |-> <<[clients |-> with_role(machines, "client"),
                         server0 |-> named(machines, "server0"),
                         server1 |-> named(machines, "server1")]>>]

\* the from_dict of a system
from_dict(system, machines) ==
    CASE system = "spectrum" -> spectrum_from_dict(machines)
      [] system = "express" -> express_from_dict(machines)
      [] system = "riposte" -> riposte_from_dict(machines)
      [] system = "dissent" -> dissent_from_dict(machines)

Systems == {"spectrum", "express", "riposte", "dissent"}

\* the named machines a Setting of the system has (its dataclass fields)
NamedMachines(system) ==
    CASE system = "spectrum" -> {"publisher"}
      [] system = "express" -> {"serverA", "serverB"}
      [] system = "riposte" -> {"leader", "server", "auditor"}
      [] system = "dissent" -> {"server0", "server1"}

\* the keys to_machine_spec can make for a system with up to two machines
\* of a kind, and a key that no system knows
Idents(system) ==
    { <<name>> : name \in NamedMachines(system) \cup {"gateway"} }
        \cup { <<"client", idx>> : idx \in 0..1 }
        \cup (IF system = "spectrum"
              THEN {<<"worker_east", 0>>, <<"worker_west", 0>>}
              ELSE {})

\* Setting.from_dict is called
FromDict ==
    /\ from_dict_call.result = <<>>
    /\ from_dict_call' =
           [from_dict_call EXCEPT
               !.result = <<from_dict(from_dict_call.system,
                                      from_dict_call.machines)>>]
    /\ UNCHANGED <<inputVars, loopVars, trialVars, outVars, exitVars,
                   histVars, pc, ctrl_c, buildVars, connVars, orderVars,
                   in_flight, streamVars, tf, run_call, express_call, pure_call, stream_call>>

\* any map of any system
InitFromDict ==
    /\ all_experiments = <<>>
    /\ cleanup = FALSE
    /\ InitRest
    /\ manifest = <<>>
    /\ force_rebuilt = [is_none |-> TRUE, configs |-> {}]
    /\ InitNoBuild
    /\ InitNoTerraform
    /\ InitNoRun
    /\ InitNoExpress
    /\ InitNoPure
    /\ InitNoStream
    /\ \E system \in Systems :
          \E machines \in SUBSET Idents(system) :
              from_dict_call =
                  [system |-> system, machines |-> machines, result |-> <<>>]

\* Setting.from_dict alone, on every map
SpecFromDict == InitFromDict /\ [][FromDict]_vars

\* ---------------------------------------------------------------------
\* spectrum Experiment.run: _inner_run inside try, the stop commands in
\* finally
\* ---------------------------------------------------------------------

\* the coroutines appended to shutdowns: two for each machine of
\* workers_west + workers_east, one for each client machine, one for the
\* publisher
shutdowns(workers, clients) ==
    { <<"worker", w, unit>> :
          w \in 1..workers, unit \in {"spectrum-worker@*", "spectrum-leader"} }
        \cup { <<"client", c, "viewer@*">> : c \in 1..clients }
        \cup { <<"publisher", 0, "spectrum-publisher">> }

\* asyncio.gather(*shutdowns) wraps every coroutine in a task; a task
\* begins to run at a later turn of the event loop
gather(coros) == [c \in coros |-> "scheduled"]

\* cancel() on the gather future cancels every child that is not done: a
\* child that has not begun never runs, a running one gets CancelledError
\* at its await
gather_cancel(stops) ==
    [c \in DOMAIN stops |->
        CASE stops[c] = "scheduled" -> "never_started"
          [] stops[c] = "running" -> "cancelled"
          [] OTHER -> stops[c]]

\* what run() gives to its caller when the finally block ends normally
run_result(exit) ==
    CASE exit = "return" -> "returned"
      [] exit = "cancelled" -> "cancelled"
      [] OTHER -> "raised"

\* _inner_run ends by a return, by an exception of a remote command or by
\* the TimeoutError of asyncio.wait_for; the finally block builds
\* shutdowns and awaits their gather
InnerRunEnds ==
    /\ run_call.phase = "inner"
    /\ \E exit \in {"return", "exception", "timeout"} :
          run_call' =
              [run_call EXCEPT
                  !.exit = exit,
                  !.phase = "finally",
                  !.stops = gather(shutdowns(run_call.workers,
                                             run_call.clients))]
    /\ UNCHANGED <<inputVars, loopVars, trialVars, outVars, exitVars,
                   histVars, pc, ctrl_c, buildVars, connVars, orderVars,
                   in_flight, streamVars, tf, from_dict_call, express_call, pure_call, stream_call>>

\* retry_experiment finds the flag set while the task is not done and
\* calls experiment_task.cancel(), once per attempt: CancelledError is
\* thrown into run() at the await it is suspended at
CancelRun ==
    /\ run_call.phase \in {"inner", "finally"}
    /\ ~run_call.cancelled
    /\ run_call' =
           IF run_call.phase = "inner"
           THEN [run_call EXCEPT
                    !.cancelled = TRUE,
                    !.exit = "cancelled",
                    !.phase = "finally",
                    !.stops = gather(shutdowns(run_call.workers,
                                               run_call.clients))]
           ELSE [run_call EXCEPT
                    !.cancelled = TRUE,
                    !.phase = "done",
                    !.stops = gather_cancel(run_call.stops),
                    !.result = "cancelled"]
    /\ UNCHANGED <<inputVars, loopVars, trialVars, outVars, exitVars,
                   histVars, pc, ctrl_c, buildVars, connVars, orderVars,
                   in_flight, streamVars, tf, from_dict_call, express_call, pure_call, stream_call>>

\* the task of a stop command takes its first step: ssh.run opens the
\* session and sends the command
StopStarts ==
    /\ \E c \in DOMAIN run_call.stops :
          /\ run_call.stops[c] = "scheduled"
          /\ run_call' = [run_call EXCEPT !.stops[c] = "running"]
    /\ UNCHANGED <<inputVars, loopVars, trialVars, outVars, exitVars,
                   histVars, pc, ctrl_c, buildVars, connVars, orderVars,
                   in_flight, streamVars, tf, from_dict_call, express_call, pure_call, stream_call>>

\* the remote command exits; with check=False every exit status is a
\* normal completion
StopFinishes ==
    /\ \E c \in DOMAIN run_call.stops :
          /\ run_call.stops[c] = "running"
          /\ run_call' = [run_call EXCEPT !.stops[c] = "finished"]
    /\ UNCHANGED <<inputVars, loopVars, trialVars, outVars, exitVars,
                   histVars, pc, ctrl_c, buildVars, connVars, orderVars,
                   in_flight, streamVars, tf, from_dict_call, express_call, pure_call, stream_call>>

\* ssh.run itself raises (the session cannot be opened, the connection is
\* lost): gather, called without return_exceptions, hands the first
\* exception to run() at once and leaves the other tasks running
StopRaises ==
    /\ \E c \in DOMAIN run_call.stops :
          /\ run_call.stops[c] = "running"
          /\ run_call' =
                 IF run_call.phase = "finally"
                 THEN [run_call EXCEPT !.stops[c] = "failed",
                                       !.phase = "done",
                                       !.result = "raised"]
                 ELSE [run_call EXCEPT !.stops[c] = "failed"]
    /\ UNCHANGED <<inputVars, loopVars, trialVars, outVars, exitVars,
                   histVars, pc, ctrl_c, buildVars, connVars, orderVars,
                   in_flight, streamVars, tf, from_dict_call, express_call, pure_call, stream_call>>

\* every task of the gather is done: "await asyncio.gather(*shutdowns)"
\* returns and run() returns or re-raises what _inner_run ended with
GatherReturns ==
    /\ run_call.phase = "finally"
    /\ \A c \in DOMAIN run_call.stops : run_call.stops[c] = "finished"
    /\ run_call' = [run_call EXCEPT !.phase = "done",
                                    !.result = run_result(run_call.exit)]
    /\ UNCHANGED <<inputVars, loopVars, trialVars, outVars, exitVars,
                   histVars, pc, ctrl_c, buildVars, connVars, orderVars,
                   in_flight, streamVars, tf, from_dict_call, express_call, pure_call, stream_call>>

\* run() has been called on a Setting and is suspended in _inner_run
InitRun ==
    /\ all_experiments = <<>>
    /\ cleanup = FALSE
    /\ InitRest
    /\ manifest = <<>>
    /\ force_rebuilt = [is_none |-> TRUE, configs |-> {}]
    /\ InitNoBuild
    /\ InitNoTerraform
    /\ InitNoFromDict
    /\ InitNoExpress
    /\ InitNoPure
    /\ InitNoStream
    /\ \E workers \in 1..MaxStopMachines, clients \in 1..MaxStopMachines :
          run_call = [workers |-> workers, clients |-> clients,
                      phase |-> "inner", exit |-> "none",
                      cancelled |-> FALSE,
                      stops |-> [c \in shutdowns(workers, clients) |-> "none"],
                      result |-> "none"]

NextRun ==
    \/ InnerRunEnds
    \/ CancelRun
    \/ StopStarts
    \/ StopFinishes
    \/ StopRaises
    \/ GatherReturns

\* one call of spectrum's Experiment.run under retry_experiment
SpecRun == InitRun /\ [][NextRun]_vars

\* ---------------------------------------------------------------------
\* express Experiment.run: the process tasks and the shutdown event
\* ---------------------------------------------------------------------

\* proc_futures: a task for serverB, for serverA and for each client
proc_futures(clients) ==
    {<<"serverB", 0>>, <<"serverA", 0>>}
        \cup { <<"client", c>> : c \in 1..clients }

\* a task of _run that is over
ProcOver(state) == state \in {"exited", "failed", "cancelled"}

\* the task of _run takes its first step: create_process opens the remote
\* process, or raises, and the task awaits shutdown.wait()
ProcStarts ==
    /\ \E p \in DOMAIN express_call.procs :
          /\ express_call.procs[p] = "scheduled"
          /\ \E outcome \in {"running", "failed"} :
                express_call' = [express_call EXCEPT !.procs[p] = outcome]
    /\ UNCHANGED <<inputVars, loopVars, trialVars, outVars, exitVars,
                   histVars, pc, ctrl_c, buildVars, connVars, orderVars,
                   in_flight, streamVars, tf, from_dict_call, run_call, pure_call, stream_call>>

\* shutdown.wait() returns in a task of _run: process.kill(), and the task
\* awaits process.stderr.read()
ProcKilled ==
    /\ express_call.shutdown
    /\ \E p \in DOMAIN express_call.procs :
          /\ express_call.procs[p] = "running"
          /\ express_call' = [express_call EXCEPT !.procs[p] = "killed"]
    /\ UNCHANGED <<inputVars, loopVars, trialVars, outVars, exitVars,
                   histVars, pc, ctrl_c, buildVars, connVars, orderVars,
                   in_flight, streamVars, tf, from_dict_call, run_call, pure_call, stream_call>>

\* stderr is read to its end and the task of _run returns
ProcExits ==
    /\ \E p \in DOMAIN express_call.procs :
          /\ express_call.procs[p] = "killed"
          /\ express_call' = [express_call EXCEPT !.procs[p] = "exited"]
    /\ UNCHANGED <<inputVars, loopVars, trialVars, outVars, exitVars,
                   histVars, pc, ctrl_c, buildVars, connVars, orderVars,
                   in_flight, streamVars, tf, from_dict_call, run_call, pure_call, stream_call>>

\* asyncio.sleep(WAIT_TIME) returns: shutdown.set(), then
\* "await all_procs"
SleepEnds ==
    /\ express_call.phase = "sleep"
    /\ express_call' =
           [express_call EXCEPT
               !.shutdown = TRUE,
               !.phase = "wait_procs"]
    /\ UNCHANGED <<inputVars, loopVars, trialVars, outVars, exitVars,
                   histVars, pc, ctrl_c, buildVars, connVars, orderVars,
                   in_flight, streamVars, tf, from_dict_call, run_call, pure_call, stream_call>>

\* "await all_procs" ends: with the outputs when every task has returned,
\* with the first exception as soon as a task has raised
AllProcsDone ==
    /\ express_call.phase = "wait_procs"
    /\ \/ /\ \A p \in DOMAIN express_call.procs :
                 express_call.procs[p] = "exited"
          /\ express_call' = [express_call EXCEPT !.phase = "done",
                                                  !.result = "returned"]
       \/ /\ \E p \in DOMAIN express_call.procs :
                 express_call.procs[p] = "failed"
          /\ express_call' = [express_call EXCEPT !.phase = "done",
                                                  !.result = "raised"]
    /\ UNCHANGED <<inputVars, loopVars, trialVars, outVars, exitVars,
                   histVars, pc, ctrl_c, buildVars, connVars, orderVars,
                   in_flight, streamVars, tf, from_dict_call, run_call, pure_call, stream_call>>

\* retry_experiment finds the flag set while the task is not done and
\* calls experiment_task.cancel(), once per attempt.  At the sleep the
\* CancelledError leaves run() at once: run() has no finally block, all_procs
\* is not awaited yet and the process tasks are tasks of their own.  At
\* "await all_procs" the cancellation goes to the gather, which cancels
\* every process task that is not done.
CancelExpress ==
    /\ express_call.phase \in {"sleep", "wait_procs"}
    /\ ~express_call.cancelled
    /\ express_call' =
           IF express_call.phase = "sleep"
           THEN [express_call EXCEPT !.cancelled = TRUE,
                                     !.phase = "done",
                                     !.result = "cancelled"]
           ELSE [express_call EXCEPT
                    !.cancelled = TRUE,
                    !.phase = "done",
                    !.result = "cancelled",
                    !.procs = [p \in DOMAIN express_call.procs |->
                                  IF ProcOver(express_call.procs[p])
                                  THEN express_call.procs[p]
                                  ELSE "cancelled"]]
    /\ UNCHANGED <<inputVars, loopVars, trialVars, outVars, exitVars,
                   histVars, pc, ctrl_c, buildVars, connVars, orderVars,
                   in_flight, streamVars, tf, from_dict_call, run_call, pure_call, stream_call>>

\* run() is over and retry_experiment creates the task of the next
\* attempt, or returns and the next trial begins
NextAttemptStarts ==
    /\ express_call.phase = "done"
    /\ express_call.result # "none"
    /\ ~express_call.next_started
    /\ express_call' = [express_call EXCEPT !.next_started = TRUE]
    /\ UNCHANGED <<inputVars, loopVars, trialVars, outVars, exitVars,
                   histVars, pc, ctrl_c, buildVars, connVars, orderVars,
                   in_flight, streamVars, tf, from_dict_call, run_call, pure_call, stream_call>>

\* run() has created the process tasks and is suspended in
\* asyncio.sleep(WAIT_TIME)
InitExpress ==
    /\ all_experiments = <<>>
    /\ cleanup = FALSE
    /\ InitRest
    /\ manifest = <<>>
    /\ force_rebuilt = [is_none |-> TRUE, configs |-> {}]
    /\ InitNoBuild
    /\ InitNoTerraform
    /\ InitNoFromDict
    /\ InitNoRun
    /\ InitNoPure
    /\ InitNoStream
    /\ \E clients \in 1..MaxStopMachines :
          express_call = [clients |-> clients, phase |-> "sleep",
                          shutdown |-> FALSE, cancelled |-> FALSE,
                          procs |-> [p \in proc_futures(clients) |->
                                        "scheduled"],
                          result |-> "none", next_started |-> FALSE]

NextExpress ==
    \/ ProcStarts
    \/ ProcKilled
    \/ ProcExits
    \/ SleepEnds
    \/ AllProcsDone
    \/ CancelExpress
    \/ NextAttemptStarts

\* one call of express's Experiment.run under retry_experiment
SpecExpress == InitExpress /\ [][NextExpress]_vars

\* ---------------------------------------------------------------------
\* functions without effect, called on their own
\* ---------------------------------------------------------------------

\* the run loop, the build cache, the provisioner and the systems are idle
InitIdle ==
    /\ all_experiments = <<>>
    /\ cleanup = FALSE
    /\ InitRest
    /\ manifest = <<>>
    /\ force_rebuilt = [is_none |-> TRUE, configs |-> {}]
    /\ InitNoBuild
    /\ InitNoTerraform
    /\ InitNoFromDict
    /\ InitNoRun
    /\ InitNoExpress

\* the protocols of a spectrum Experiment
Protocols ==
    {Symmetric, SymmetricPub}
        \cup { SeedHomomorphic(parties) : parties \in 1..MaxParties }

\* the Experiments to_environment is tried on; clients_per_machine = 0
\* stands for None
ToEnvironmentPool ==
    { [clients |-> c,
       instance_type |-> DEFAULT_INSTANCE_TYPE,
       clients_per_machine |-> m,
       worker_machines_per_group |-> w,
       protocol |-> p,
       hammer |-> h] :
        c \in 0..MaxViewers, m \in 0..MaxPerMachine,
        w \in 1..MaxGroupMachines, p \in Protocols, h \in BOOLEAN }

\* Experiment.to_environment is called
ToEnvironment ==
    /\ pure_call.fn = "to_environment"
    /\ pure_call.result = <<>>
    /\ pure_call' =
           [pure_call EXCEPT !.result = <<to_environment(pure_call.args)>>]
    /\ UNCHANGED <<inputVars, loopVars, trialVars, outVars, exitVars,
                   histVars, pc, ctrl_c, buildVars, connVars, orderVars,
                   in_flight, streamVars, tf, from_dict_call, run_call,
                   express_call, stream_call>>

InitToEnvironment ==
    /\ InitIdle
    /\ InitNoStream
    /\ \E e \in ToEnvironmentPool :
          pure_call = [fn |-> "to_environment", args |-> e, result |-> <<>>]

\* Experiment.to_environment alone, on every Experiment of the pool
SpecToEnvironment == InitToEnvironment /\ [][ToEnvironment]_vars

\* Protocol.__subclasses__(), by class name
ProtocolSubclasses == {"Symmetric", "SymmetricPub", "SeedHomomorphic"}

\* Protocol.from_dict on the one-key dict {key: {"parties": parties}} (for
\* the symmetric protocols {key: {"security": 16}}): the subclass named by
\* the key builds the protocol, a key that names no subclass is a ValueError
protocol_from_dict(key, parties) ==
    IF key \notin ProtocolSubclasses
    THEN [error |-> "ValueError", value |-> <<>>]
    ELSE [error |-> "none",
          value |-> <<CASE key = "Symmetric" -> Symmetric
                        [] key = "SymmetricPub" -> SymmetricPub
                        [] key = "SeedHomomorphic" ->
                               SeedHomomorphic(parties)>>]

\* Experiment.from_dict: the "protocol" entry goes through
\* Protocol.from_dict, the other entries are the fields
experiment_from_dict(data) ==
    LET protocol == protocol_from_dict(data.protocol.key,
                                       data.protocol.parties)
    IN  IF protocol.error # "none"
        THEN [error |-> protocol.error, value |-> <<>>]
        ELSE [error |-> "none",
              value |-> <<[clients |-> data.clients,
                           instance_type |-> DEFAULT_INSTANCE_TYPE,
                           clients_per_machine |-> data.clients_per_machine,
                           worker_machines_per_group |->
                               data.worker_machines_per_group,
                           protocol |-> protocol.value[1],
                           hammer |-> TRUE]>>]

\* the protocol entries the help text of the command line documents:
\* {"Symmetric": {"security": 16}}, {"Insecure": {"parties": N}},
\* {"SeedHomomorphic": {"parties": N}}
DocumentedProtocols ==
    {[key |-> "Symmetric", parties |-> 0]}
        \cup { [key |-> key, parties |-> parties] :
                 key \in {"Insecure", "SeedHomomorphic"},
                 parties \in 1..MaxParties }

\* the experiment descriptions of an input file
ExperimentDicts ==
    { [clients |-> c,
       clients_per_machine |-> m,
       worker_machines_per_group |-> w,
       protocol |-> p] :
        c \in 0..MaxViewers, m \in 0..MaxPerMachine,
        w \in 1..MaxGroupMachines,
        p \in DocumentedProtocols
                 \cup {[key |-> "SymmetricPub", parties |-> 0]} }

\* Experiment.from_dict is called on a description
ExperimentFromDict ==
    /\ pure_call.fn = "Experiment.from_dict"
    /\ pure_call.result = <<>>
    /\ pure_call' =
           [pure_call EXCEPT !.result = <<experiment_from_dict(pure_call.args)>>]
    /\ UNCHANGED <<inputVars, loopVars, trialVars, outVars, exitVars,
                   histVars, pc, ctrl_c, buildVars, connVars, orderVars,
                   in_flight, streamVars, tf, from_dict_call, run_call,
                   express_call, stream_call>>

InitExperimentFromDict ==
    /\ InitIdle
    /\ InitNoStream
    /\ \E data \in ExperimentDicts :
          pure_call = [fn |-> "Experiment.from_dict", args |-> data,
                       result |-> <<>>]

\* Experiment.from_dict alone, on every description of the pool
SpecExperimentFromDict ==
    InitExperimentFromDict /\ [][ExperimentFromDict]_vars

\* the worker lists of the Setting made for an Environment: Machines are
\* named by region and index
workers_east(environment) ==
    [i \in 1..environment.worker_machines_east |-> <<"worker_east", i - 1>>]

workers_west(environment) ==
    [i \in 1..environment.worker_machines_west |-> <<"worker_west", i - 1>>]

\* a mutant of region_of: every group takes its machines from the east
region_always_east(group) == "east"

\* cycle((iter(workers_east), iter(workers_west))) zipped with
\* range(groups): the iterator that group (counted from 0) draws from
region_of(group) == IF group % 2 = 0 THEN "east" ELSE "west"

\* the inner loop for one group: worker_machines_per_group calls of
\* next(workers), from position pos of the region's list, with
\* worker_start_idx going up by workers_per_machine
group_tasks(pool, pos, group, wmpg, wpm) ==
    [idx \in 1..wmpg |->
        [machine |-> pool[pos + idx],
         group |-> group + 1,
         worker_start_idx |-> (idx - 1) * wpm]]

\* the loop over the groups of _inner_run, from group on, with east and
\* west machines already taken; next() on an exhausted iterator raises
\* StopIteration
RECURSIVE prepare_workers(_, _, _, _, _, _, _)
prepare_workers(e, wpm, east, west, group, east_taken, west_taken) ==
    IF group >= groups_of(e) THEN [error |-> "none", tasks |-> <<>>]
    ELSE LET is_east == region_of(group) = "east"
             pool == IF is_east THEN east ELSE west
             pos == IF is_east THEN east_taken ELSE west_taken
             wmpg == e.worker_machines_per_group
         IN  IF pos + wmpg > Len(pool)
             THEN [error |-> "StopIteration", tasks |-> <<>>]
             ELSE LET rest ==
                          prepare_workers(
                              e, wpm, east, west, group + 1,
                              IF is_east THEN east_taken + wmpg
                              ELSE east_taken,
                              IF is_east THEN west_taken
                              ELSE west_taken + wmpg)
                  IN  [error |-> rest.error,
                       tasks |-> group_tasks(pool, pos, group, wmpg, wpm)
                                     \o rest.tasks]

\* worker preparation of an Experiment on the Setting of its Environment
PrepareWorkers ==
    /\ pure_call.fn = "prepare_workers"
    /\ pure_call.result = <<>>
    /\ LET e == pure_call.args.experiment
           environment == to_environment(e)
       IN  pure_call' =
               [pure_call EXCEPT
                   !.result =
                       <<prepare_workers(
                             e, pure_call.args.workers_per_machine,
                             workers_east(environment),
                             workers_west(environment), 0, 0, 0)>>]
    /\ UNCHANGED <<inputVars, loopVars, trialVars, outVars, exitVars,
                   histVars, pc, ctrl_c, buildVars, connVars, orderVars,
                   in_flight, streamVars, tf, from_dict_call, run_call,
                   express_call, stream_call>>

InitPrepareWorkers ==
    /\ InitIdle
    /\ InitNoStream
    /\ \E e \in ToEnvironmentPool, wpm \in 1..MaxWorkersPerMachine :
          pure_call = [fn |-> "prepare_workers",
                       args |-> [experiment |-> e,
                                 workers_per_machine |-> wpm],
                       result |-> <<>>]

\* worker preparation alone, on every Experiment of the pool
SpecPrepareWorkers == InitPrepareWorkers /\ [][PrepareWorkers]_vars

\* ---------------------------------------------------------------------
\* experiments_new/run.py: one region, Environment.to_setup and the viewer
\* ranges of run_experiment
\* ---------------------------------------------------------------------

\* Python's range(start, stop, step) for step >= 1, as a list
py_range(start, stop, step) ==
    LET n == IF stop <= start THEN 0
             ELSE (stop - start + step - 1) \div step
    IN  [i \in 1..n |-> start + (i - 1) * step]

\* Python's zip of two lists: it stops with the shorter one
zip(a, b) ==
    [i \in 1..(IF Len(a) <= Len(b) THEN Len(a) ELSE Len(b)) |->
        <<a[i], b[i]>>]

\* client_counts of run_experiment:
\* starmap(slice, zip(range(1, clients, cpm),
\*                    chain(range(cpm, clients, cpm), [clients])))
client_counts(clients, clients_per_machine) ==
    zip(py_range(1, clients, clients_per_machine),
        py_range(clients_per_machine, clients, clients_per_machine)
            \o <<clients>>)

\* Experiment.to_environment of experiments_new: the client machines
client_machines_new(clients, clients_per_machine) ==
    ceil_div(clients, clients_per_machine)

\* zip(clients, client_counts) of run_experiment on the Setting of the
\* Experiment's Environment: the k-th client machine starts
\* viewer@{start..stop}
client_ranges(clients, clients_per_machine) ==
    LET machines ==
            [k \in 1..client_machines_new(clients, clients_per_machine) |-> k]
        pairs == zip(machines, client_counts(clients, clients_per_machine))
    IN  [k \in DOMAIN pairs |->
            [machine |-> pairs[k][1],
             start |-> pairs[k][2][1],
             stop |-> pairs[k][2][2]]]

\* the Experiments of experiments_new the viewer ranges are computed for
NewExperimentPool ==
    { [clients |-> c,
       clients_per_machine |-> m,
       worker_machines_per_group |-> w,
       groups |-> g] :
        c \in 1..MaxViewers, m \in 1..MaxPerMachine,
        w \in 1..MaxGroupMachines, g \in 1..MaxParties }

\* run_experiment computes the viewer ranges of the client machines
ClientRanges ==
    /\ pure_call.fn = "client_ranges"
    /\ pure_call.result = <<>>
    /\ pure_call' =
           [pure_call EXCEPT
               !.result =
                   <<client_ranges(pure_call.args.clients,
                                   pure_call.args.clients_per_machine)>>]
    /\ UNCHANGED <<inputVars, loopVars, trialVars, outVars, exitVars,
                   histVars, pc, ctrl_c, buildVars, connVars, orderVars,
                   in_flight, streamVars, tf, from_dict_call, run_call,
                   express_call, stream_call>>

InitClientRanges ==
    /\ InitIdle
    /\ InitNoStream
    /\ \E e \in NewExperimentPool :
          pure_call = [fn |-> "client_ranges", args |-> e, result |-> <<>>]

\* the viewer ranges alone, on every Experiment of the pool
SpecClientRanges == InitClientRanges /\ [][ClientRanges]_vars

\* Python's machines[-k:] for 0 <= k: the last k elements, and the whole
\* list when k is 0 (-0 is 0) or not smaller than the length
last_slice(machines, k) ==
    IF k = 0 \/ k >= Len(machines) THEN machines
    ELSE SubSeq(machines, Len(machines) - k + 1, Len(machines))

\* Python's machines[1 : k + 1]
workers_slice(machines, k) ==
    SubSeq(machines, 2, IF k + 1 <= Len(machines) THEN k + 1 ELSE Len(machines))

\* Environment.to_setup of experiments_new
to_setup(environment, machines) ==
    IF Len(machines)
           # environment.client_machines + environment.worker_machines + 1
    THEN [error |-> "AssertionError", publisher |-> <<>>,
          workers |-> <<>>, clients |-> <<>>]
    ELSE [error |-> "none",
          publisher |-> <<machines[1]>>,
          workers |-> workers_slice(machines, environment.worker_machines),
          clients |-> last_slice(machines, environment.client_machines)]

\* Environment.to_setup is called on a list of Machines
ToSetup ==
    /\ pure_call.fn = "to_setup"
    /\ pure_call.result = <<>>
    /\ pure_call' =
           [pure_call EXCEPT
               !.result = <<to_setup(pure_call.args.environment,
                                     pure_call.args.machines)>>]
    /\ UNCHANGED <<inputVars, loopVars, trialVars, outVars, exitVars,
                   histVars, pc, ctrl_c, buildVars, connVars, orderVars,
                   in_flight, streamVars, tf, from_dict_call, run_call,
                   express_call, stream_call>>

\* any Environment and any list of distinct Machines, of the right length
\* or not
InitToSetup ==
    /\ InitIdle
    /\ InitNoStream
    /\ \E cm \in 0..MaxSetupMachines, wm \in 0..MaxSetupMachines,
          n \in 0..(2 * MaxSetupMachines + 2) :
          pure_call = [fn |-> "to_setup",
                       args |-> [environment |->
                                     [client_machines |-> cm,
                                      worker_machines |-> wm],
                                 machines |-> [i \in 1..n |-> i]],
                       result |-> <<>>]

\* Environment.to_setup alone
SpecToSetup == InitToSetup /\ [][ToSetup]_vars

\* ---------------------------------------------------------------------
\* stream_json (experiments/util.py) on its own, with either value of close
\* ---------------------------------------------------------------------

\* a mutant of body_exit: the closing bracket is written on every exit
body_exit_finally(buffer, normal) == Append(buffer, CloseToken)

\* the statement after "yield writer": file.write("\n]\n") runs when the
\* body returned, and is skipped when an exception comes out of the yield
body_exit(buffer, normal) ==
    IF normal THEN Append(buffer, CloseToken) ELSE buffer

\* leaving "with closer": closing(file) closes the file, which flushes it;
\* nullcontext() does nothing.  What the file holds, what the buffer holds,
\* and whether the file is closed
closer_exit(file, buffer, close) ==
    IF close THEN <<file \o buffer, <<>>, TRUE>>
    ELSE <<file, buffer, FALSE>>

\* "with stream_json(file, close) as writer": file.write("[\n"), first =
\* True, and the body begins
StreamEnter ==
    /\ stream_call.phase = "new"
    /\ out_buffer' = Append(out_buffer, OpenToken)
    /\ first' = TRUE
    /\ stream_call' = [stream_call EXCEPT !.phase = "body"]
    /\ UNCHANGED out_file
    /\ UNCHANGED <<inputVars, loopVars, trialVars, outVars, exitVars,
                   histVars, pc, ctrl_c, buildVars, connVars, orderVars,
                   in_flight, tf, from_dict_call, run_call, express_call,
                   pure_call>>

\* the body calls writer(data)
StreamWrite ==
    /\ stream_call.phase = "body"
    /\ Len(stream_call.handed) < MaxRecords
    /\ \E data \in 1..MaxRecords :
          /\ LET buffer == written_to(out_buffer, first, data)
             IN  /\ out_file' = flush(out_file, buffer)[1]
                 /\ out_buffer' = flush(out_file, buffer)[2]
          /\ first' = FALSE
          /\ stream_call' =
                 [stream_call EXCEPT !.handed = Append(@, data)]
    /\ UNCHANGED <<inputVars, loopVars, trialVars, outVars, exitVars,
                   histVars, pc, ctrl_c, buildVars, connVars, orderVars,
                   in_flight, tf, from_dict_call, run_call, express_call,
                   pure_call>>

\* the body ends, by returning or by an exception, and the with statement
\* is left
StreamExit ==
    /\ stream_call.phase = "body"
    /\ \E normal \in BOOLEAN :
          LET buffer == body_exit(out_buffer, normal)
              left == closer_exit(out_file, buffer, stream_call.close)
          IN  /\ out_file' = left[1]
              /\ out_buffer' = left[2]
              /\ stream_call' =
                     [stream_call EXCEPT
                         !.closed = left[3],
                         !.phase = IF normal THEN "exited" ELSE "raised"]
    /\ UNCHANGED first
    /\ UNCHANGED <<inputVars, loopVars, trialVars, outVars, exitVars,
                   histVars, pc, ctrl_c, buildVars, connVars, orderVars,
                   in_flight, tf, from_dict_call, run_call, express_call,
                   pure_call>>

InitStream ==
    /\ InitIdle
    /\ InitNoPure
    /\ \E close \in BOOLEAN :
          stream_call = [close |-> close, phase |-> "new",
                         closed |-> FALSE, handed |-> <<>>]

NextStream ==
    \/ StreamEnter
    \/ StreamWrite
    \/ StreamExit

\* one use of stream_json, with any writes in its body
SpecStream == InitStream /\ [][NextStream]_vars

\* infra() has provisioned the fleet of a one-experiment run and made the
\* connection contexts; any of the machines may be one that never becomes
\* reachable
InitConnect ==
    /\ all_experiments \in { <<x>> : x \in RunPool }
    /\ cleanup \in BOOLEAN
    /\ groups = experiments_by_environment(all_experiments)
    /\ pc = "connect"
    /\ gi = 1
    /\ ei = 0
    /\ live = FALSE
    /\ attempt = 0
    /\ interrupted = FALSE
    /\ ctrl_c = FALSE
    /\ task = "none"
    /\ error_log = 0
    /\ results = <<>>
    /\ provisioned = <<groups[1].environment>>
    /\ teardowns = <<>>
    /\ exc = "none"
    /\ exit_code = 0
    /\ started = 0
    /\ sigs = 0
    /\ run_outcomes = <<>>
    /\ log0 = 0
    /\ flag_found = FALSE
    /\ res0 = 0
    /\ written = <<>>
    /\ exhausted = 0
    /\ pending = 1..total_machines(groups[1].environment)
    /\ open_conns = {}
    /\ opened = 0
    /\ closed = 0
    /\ unreachable \in SUBSET pending
    /\ waiting = {}
    /\ trials_started = <<>>
    /\ trials_ended = 0
    /\ bootstraps = 0
    /\ in_flight = 0
    /\ out_file = <<>>
    /\ out_buffer = <<OpenToken>>
    /\ first = TRUE
    /\ manifest = <<>>
    /\ force_rebuilt = [is_none |-> TRUE, configs |-> {}]
    /\ InitNoBuild
    /\ InitNoTerraform
    /\ InitNoRun
    /\ InitNoExpress
    /\ InitNoPure
    /\ InitNoStream
    /\ InitNoFromDict

\* the steps of the fleet acquisition
NextConnect ==
    \/ ConnFailed
    \/ ConnRetry
    \/ ConnOpened
    \/ Connect

\* The fleet acquisition alone.  The event loop runs every task that can
\* run: a try that is under way ends, a sleep ends, the gather returns once
\* its tasks are done; a machine that is reachable answers one of the
\* tries made of it.
SpecConnect ==
    /\ InitConnect
    /\ [][NextConnect]_vars
    /\ WF_vars(ConnFailed)
    /\ WF_vars(ConnRetry)
    /\ SF_vars(ConnOpened)
    /\ WF_vars(Connect)

(***************************************************************************)
(* Properties.                                                             *)
(***************************************************************************)
\* the trial is over: retry_experiment has returned or an exception left it
TrialEnded == pc = "returned" \/ (pc = "raise" /\ started > 0)

\* every run() task finished so far in this trial ended by CancelledError
AllCancelled == \A i \in DOMAIN run_outcomes : run_outcomes[i] = "cancelled"

\* every run() task finished so far in this trial raised
AllRaised == \A i \in DOMAIN run_outcomes : run_outcomes[i] = "err"

\* the first k - 1 run() tasks of this trial raised and the k-th returned
RaisedThenReturned(k) ==
    /\ Len(run_outcomes) = k
    /\ run_outcomes[k] = "ok"
    /\ \A i \in 1..(k - 1) : run_outcomes[i] = "err"

\* the experiment of the current trial
CurrentExperiment == groups[gi].experiments[ei]

\* C1: in every interleaving of failures, successes and signals, a trial
\* starts run() at most MAX_ATTEMPTS times.
C1_AtMostMaxAttempts == started <= MAX_ATTEMPTS

\* the fifth run() of a trial is in flight after failures and a signal
C1_Witness ==
    /\ pc = "wait"
    /\ started = MAX_ATTEMPTS
    /\ interrupted
    /\ error_log > log0

\* C2: a trial whose run() raised on every attempt and that saw no signal
\* ends by a normal return after exactly MAX_ATTEMPTS attempts, with exactly
\* MAX_ATTEMPTS new entries in the error log and no Result written.
C2_AlwaysRaising ==
    (TrialEnded /\ sigs = 0 /\ AllRaised) =>
        /\ pc = "returned"
        /\ started = MAX_ATTEMPTS
        /\ Len(run_outcomes) = MAX_ATTEMPTS
        /\ error_log = log0 + MAX_ATTEMPTS
        /\ Len(results) = res0
        /\ written = <<>>
        /\ exc = "none"

\* the second trial of a run returns after five failures
C2_Witness ==
    /\ pc = "returned"
    /\ sigs = 0
    /\ AllRaised
    /\ Len(run_outcomes) = MAX_ATTEMPTS
    /\ log0 > 0
    /\ error_log = log0 + MAX_ATTEMPTS

\* C3: with no signal, when run() raises on attempts 1..k-1 and returns on
\* attempt k, the trial returns having written the Result of attempt k
\* exactly once, the error log has gained exactly k - 1 entries, and k
\* attempts were started.
C3_SucceedsOnAttemptK ==
    \A k \in 1..MAX_ATTEMPTS :
        (sigs = 0 /\ RaisedThenReturned(k) /\ pc # "wait") =>
            /\ pc = "returned"
            /\ written = <<k>>
            /\ Len(results) = res0 + 1
            /\ results[res0 + 1] = CurrentExperiment
            /\ error_log = log0 + (k - 1)
            /\ started = k

\* run() raised on attempts 1-4 and returned on attempt 5
C3_Witness ==
    /\ pc = "returned"
    /\ sigs = 0
    /\ RaisedThenReturned(MAX_ATTEMPTS)
    /\ written = <<MAX_ATTEMPTS>>
    /\ error_log = log0 + 4

\* C4: when the only signal of a trial cancels the run() of attempt j
\* (whichever attempt it is), attempt j + 1 is started and the run is not
\* aborted.
C4_SingleSignalRetries ==
    \A j \in DOMAIN run_outcomes :
        (sigs = 1 /\ run_outcomes[j] = "cancelled") =>
            /\ exc # "KeyboardInterrupt"
            /\ pc \in {"wait", "unwind", "returned"} => started > j

\* C5: once two signals were delivered during a trial in which no run()
\* returned or raised on its own, and were handled, the trial has ended by
\* the abort condition; and once the abort condition is raised the program
\* only unwinds.
C5_TwoSignalsAbort ==
    /\ (sigs >= 2 /\ AllCancelled /\ pc \in {"loop", "returned", "raise"}) =>
           (pc = "raise" /\ exc = "KeyboardInterrupt")
    /\ exc = "KeyboardInterrupt" =>
           pc \in {"raise", "cleanup", "main", "exited"}

\* C6: no exception raised by run() ever propagates out of
\* retry_experiment.
C6_RunErrorsRecovered == exc # "RunError"

\* C7: a run that ends without a fatal error or abort exits with a
\* non-zero status exactly when some trial exhausted its attempts without
\* a Result.
C7_ExitStatus ==
    (pc = "exited" /\ exc = "none") => ((exit_code # 0) <=> (exhausted > 0))

\* the positions of all groups, one group after the other
RECURSIVE Concat(_, _)
Concat(gs, n) ==
    IF n = 0 THEN <<>> ELSE Concat(gs, n - 1) \o gs[n].experiments

\* order is the stable sort of the positions of exps by Environment
IsStableSort(order, exps) ==
    /\ Len(order) = Len(exps)
    /\ \A i \in DOMAIN exps :
          Cardinality({p \in DOMAIN order : order[p] = i}) = 1
    /\ \A p, q \in DOMAIN order :
          p < q =>
            /\ ~EnvLt(Key(exps, order[q]), Key(exps, order[p]))
            /\ Key(exps, order[p]) = Key(exps, order[q]) => order[p] < order[q]

DistinctEnvironments ==
    { to_environment(all_experiments[i]) : i \in DOMAIN all_experiments }

Matching(file, build_config) ==
    { i \in DOMAIN file : to_config(file[i]) = build_config }

\* record r is a newest one among the records of file matching build_config
IsNewestMatching(r, file, build_config) ==
    /\ \E i \in Matching(file, build_config) : file[i] = r
    /\ \A i \in Matching(file, build_config) :
          file[i].timestamp <= r.timestamp

\* C11: with force-rebuild disabled, a call against a manifest that holds a
\* record matching the configuration returns such a record (a newest one)
\* without running the image builder, and a following call with an equal
\* configuration returns the same record.
C11_CacheHit ==
    \A i \in DOMAIN calls :
        (force_rebuilt.is_none /\ Matching(calls[i].file, calls[i].config) # {})
        =>  /\ calls[i].invocations = 0
            /\ calls[i].error = "none"
            /\ Len(calls[i].result) = 1
            /\ IsNewestMatching(calls[i].result[1], calls[i].file,
                                calls[i].config)
            /\ calls[i].file_after = calls[i].file
            /\ \A j \in DOMAIN calls :
                  (j > i /\ calls[j].config = calls[i].config
                         /\ calls[j].file = calls[i].file)
                  => calls[j].result = calls[i].result

\* the same configuration is asked for twice against a manifest holding two
\* matching records, the newer one later in the file; the builder never ran
C11_Witness ==
    /\ force_rebuilt.is_none
    /\ Len(calls) = 2
    /\ calls[1].config = calls[2].config
    /\ Len(manifest) = 2
    /\ to_config(manifest[1]) = calls[1].config
    /\ to_config(manifest[2]) = calls[1].config
    /\ manifest[1].timestamp < manifest[2].timestamp
    /\ calls[1].result = <<manifest[2]>>
    /\ calls[2].result = <<manifest[2]>>
    /\ packer_builds = <<>>

\* C12: in a run with force-rebuild enabled the image builder runs at most
\* once for each build configuration, however many calls ask for it.
C12_OneBuildPerConfig ==
    ~force_rebuilt.is_none =>
        \A build_config \in ConfigPool :
            Cardinality({ i \in DOMAIN packer_builds :
                            packer_builds[i] = build_config }) <= 1

\* three calls, two of them for one configuration that was already in the
\* manifest: it was rebuilt once, by the first of the two
C12_Witness ==
    /\ ~force_rebuilt.is_none
    /\ Len(calls) = 3
    /\ calls[1].config = calls[3].config
    /\ calls[2].config # calls[1].config
    /\ Matching(calls[1].file, calls[1].config) # {}
    /\ calls[1].invocations = 1
    /\ calls[3].invocations = 0
    /\ Len(packer_builds) = 2

\* C13: a call that ran the image builder and then found no matching record
\* in the reloaded manifest ended with an error, returned no build, and ran
\* the builder exactly once.
C13_BuildNotProduced ==
    \A i \in DOMAIN calls :
        (calls[i].invocations > 0
            /\ Matching(calls[i].file_after, calls[i].config) = {})
        =>  /\ calls[i].error # "none"
            /\ build_exc = calls[i].error
            /\ i = Len(calls)
            /\ calls[i].invocations = 1
            /\ Cardinality({ k \in DOMAIN packer_builds :
                               packer_builds[k] = calls[i].config }) = 1

\* the builder ran without failing and left a manifest that holds records
\* of other configurations only
C13_Witness ==
    /\ Len(calls) = 2
    /\ calls[2].invocations = 1
    /\ calls[2].error = "RuntimeError"
    /\ calls[2].file_after # <<>>
    /\ Matching(calls[2].file_after, calls[2].config) = {}

(***************************************************************************)
(* Properties of the run loop.                                             *)
(***************************************************************************)
\* C14: once the run loop is left, by whatever path, terraform destroy has
\* been invoked exactly once when cleanup was requested and never when it
\* was not; while the loop is running it has not been invoked.
C14_TeardownOnce ==
    /\ pc \in {"main", "exited"} =>
           Len(teardowns) = (IF cleanup THEN 1 ELSE 0)
    /\ pc \notin {"main", "exited"} => teardowns = <<>>

\* a run with cleanup requested that a double cancellation aborted during
\* its second group has torn down once
C14_Witness ==
    /\ pc = "exited"
    /\ cleanup
    /\ exc = "KeyboardInterrupt"
    /\ gi = 2
    /\ Len(teardowns) = 1

\* C15: every teardown was invoked with the fixed cleanup variables, all
\* machine counts zero, whatever was provisioned before.
C15_TeardownVars ==
    \A i \in DOMAIN teardowns :
        /\ teardowns[i].client_machine_count = 0
        /\ teardowns[i].worker_machine_east_count = 0
        /\ teardowns[i].worker_machine_west_count = 0
        /\ teardowns[i].instance_type = "c5.4xlarge"
        /\ teardowns[i].region = "us-east-2"
        /\ teardowns[i].sha = "null"

\* a teardown after two Environments were provisioned
C15_Witness ==
    /\ Len(teardowns) = 1
    /\ Len(provisioned) = 2
    /\ provisioned[2].worker_machines_east = 2

\* C16: the connections that are open or being opened are those of the
\* current group's fleet and no other connection was opened and not closed,
\* a Setting is live only while they are open, and when the
\* provisioning of a group begins no connection is open and no Setting is
\* live.
C16_OneSettingLive ==
    /\ (open_conns \cup pending # {}) =>
           (/\ gi \in DOMAIN groups
            /\ open_conns \cup pending
                   \subseteq 1..total_machines(groups[gi].environment))
    /\ Cardinality(open_conns) = opened - closed
    /\ pc \in {"group_next", "infra"} => (open_conns = {} /\ ~live)
    /\ pc = "connect" => ~live
    /\ live => (pending = {} /\ open_conns # {})

\* the fleet of the second group is being connected: the connections of the
\* first group are closed and one of the second is open
C16_Witness ==
    /\ pc = "connect"
    /\ gi = 2
    /\ open_conns # {}
    /\ pending # {}
    /\ closed = 4
    /\ opened = 4 + Cardinality(open_conns)

\* the scope of the current group has been left
ScopeLeft == pc \in {"group_next", "infra", "cleanup", "main", "exited"}

\* C17: once the scope of a group has been left, by whatever path, every
\* connection that was opened for it is closed.
C17_ConnectionsClosed ==
    ScopeLeft =>
        /\ open_conns = {}
        /\ pending = {}
        /\ closed = opened

\* a hard abort during a trial of the second group: the six connections of
\* that group and the four of the first are closed
C17_Witness ==
    /\ pc = "cleanup"
    /\ exc = "KeyboardInterrupt"
    /\ gi = 2
    /\ open_conns = {}
    /\ opened = 10
    /\ closed = 10

\* p is a prefix of q
IsPrefix(p, q) ==
    /\ Len(p) <= Len(q)
    /\ \A i \in DOMAIN p : p[i] = q[i]

\* C18: the trials started so far are a prefix of the scheduler's order
\* (group after group, list order within a group), at most one trial has
\* not ended, and when the loop turns to the next experiment the previous
\* trial has ended and left no run() behind.
C18_TrialOrder ==
    /\ IsPrefix(trials_started, Concat(groups, Len(groups)))
    /\ trials_ended <= Len(trials_started)
    /\ Len(trials_started) <= trials_ended + 1
    /\ pc \in {"exp_next", "close", "group_next", "infra", "connect", "etcd"}
           => (trials_ended = Len(trials_started) /\ task = "none")
    /\ pc \in {"loop", "wait", "unwind", "returned"}
           => Len(trials_started) = trials_ended + 1

\* the list gives the experiment of the second group first: the trials of
\* the second and third experiment ran, one of them failing, before the
\* trial of the first, which is running
C18_Witness ==
    /\ pc = "wait"
    /\ trials_started = <<2, 3, 1>>
    /\ trials_ended = 2
    /\ exhausted = 1
    /\ Len(results) = 1

\* C19: at most one run() task is in flight, and none is whenever the main
\* coroutine is not suspended in asyncio.wait or in the await of the
\* cancelled task: the next attempt, the next trial and every exit start
\* with no run() in flight.
C19_OneRunInFlight ==
    /\ in_flight <= 1
    /\ pc \notin {"wait", "unwind"} => in_flight = 0
    /\ pc = "unwind" => in_flight = 1

\* the attempt after a cancelled one is in flight
C19_Witness ==
    /\ pc = "wait"
    /\ in_flight = 1
    /\ task = "running"
    /\ started = 2
    /\ run_outcomes = <<"cancelled">>

\* the records among a sequence of tokens
Records(tokens) == SelectSeq(tokens, LAMBDA t : t > 0)

\* the experiments of the records that have reached the file
FileExperiments == Records(out_file)

\* the place of an experiment among the trials started
TrialIndex(x) == CHOOSE k \in DOMAIN trials_started : trials_started[k] = x

\* C20: the records in the file are exactly those handed to the writer and
\* none waits in the buffer; when a trial returns, the file holds exactly
\* one more record than when it began if it succeeded (the record of its
\* experiment, last in the file) and no more if it exhausted its attempts;
\* the records are in the order of their trials.
C20_ResultsStreamed ==
    LET fe == FileExperiments
    IN  /\ fe = results
        /\ Records(out_buffer) = <<>>
        /\ pc = "returned" =>
              IF written # <<>>
              THEN /\ Len(written) = 1
                   /\ Len(fe) = res0 + 1
                   /\ fe[res0 + 1] = CurrentExperiment
                   /\ out_file[Len(out_file)] = CurrentExperiment
              ELSE Len(fe) = res0
        /\ \A i \in DOMAIN fe :
              /\ \E k \in DOMAIN trials_started : trials_started[k] = fe[i]
              /\ \A j \in DOMAIN fe :
                    i < j => TrialIndex(fe[i]) < TrialIndex(fe[j])

\* the third trial of a run has just succeeded, after the first succeeded
\* and the second exhausted its attempts: two records, in trial order
C20_Witness ==
    /\ pc = "returned"
    /\ trials_started = <<2, 3, 1>>
    /\ exhausted = 1
    /\ FileExperiments = <<2, 1>>
    /\ Len(out_file) = 4
    /\ out_buffer = <<>>

\* C21: the fleet acquisition always ends, with the fleet connected or with
\* a failure, also when a machine never becomes reachable.
C21_AcquisitionTerminates == (pc = "connect") ~> (pc # "connect")

\* a fleet whose machines are all reachable is connected
ReachableFleetConnects ==
    (pc = "connect" /\ unreachable = {}) ~> (pc # "connect")

\* the number of times a step stands in a sequence of steps
Count(steps, step) == Cardinality({ i \in DOMAIN steps : steps[i] = step })

\* C22: when a call of cloud.terraform has returned and the next call is
\* made with the same variables, the two calls together run the apply step
\* at most once and the second does not run it; the second call runs the
\* plan and the output step only and, unless one of the two fails, returns
\* the same output map as the first.
C22_IdempotentProvisioning ==
    \A i \in DOMAIN tf.calls :
        (/\ i + 1 \in DOMAIN tf.calls
         /\ tf.calls[i].exception = "none"
         /\ tf.calls[i + 1].tf_vars = tf.calls[i].tf_vars) =>
            /\ Count(tf.calls[i + 1].steps, "apply") = 0
            /\ Count(tf.calls[i].steps, "apply") <= 1
            /\ tf.calls[i + 1].steps \in {<<"plan">>, <<"plan", "output">>}
            /\ tf.calls[i + 1].steps = <<"plan", "output">> =>
                  (tf.calls[i + 1].exception = "none"
                       <=> tf.calls[i + 1].data = tf.calls[i].data)
            /\ tf.calls[i + 1].exception = "none" =>
                  tf.calls[i + 1].data = {tf.calls[i].tf_vars}

\* a call that applied and returned, followed by a call with the same
\* variables that returned the output map
C22_Witness ==
    /\ Len(tf.calls) = 2
    /\ tf.calls[1].steps = <<"plan", "apply", "output">>
    /\ tf.calls[1].exception = "none"
    /\ tf.calls[2].tf_vars = tf.calls[1].tf_vars
    /\ tf.calls[2].exception = "none"
    /\ tf.calls[2].steps = <<"plan", "output">>
    /\ tf.calls[2].data = {tf.calls[1].tf_vars}

\* C23: a call whose first plan fails for want of initialization runs init
\* once, straight after that plan, and the plan once more if init
\* succeeded; when init or the retried plan fails the call ends there with
\* the error.  A call whose first plan fails for another reason ends with
\* the error after that one plan.  No call runs init twice or the plan
\* three times.
C23_InitAndRetryOnce ==
    \A i \in DOMAIN tf.calls :
        LET call == tf.calls[i]
        IN  /\ Count(call.steps, "init") <= 1
            /\ Count(call.steps, "plan") <= 2
            /\ call.plan1 = "uninitialized" =>
                  \/ /\ call.steps \in {<<"plan", "init">>,
                                        <<"plan", "init", "plan">>}
                     /\ call.exception = "CalledProcessError"
                  \/ /\ Len(call.steps) > 3
                     /\ SubSeq(call.steps, 1, 3) = <<"plan", "init", "plan">>
                     /\ \A k \in 4..Len(call.steps) :
                           call.steps[k] \in {"apply", "output"}
            /\ call.plan1 \in {"no_image", "error"} =>
                  /\ call.steps = <<"plan">>
                  /\ call.exception =
                         (IF call.plan1 = "no_image" THEN "NoImageError"
                          ELSE "CalledProcessError")
            /\ call.plan1 = "ok" => Count(call.steps, "init") = 0

\* a call in a directory never initialized whose retried plan failed,
\* followed by a call whose only plan failed for another reason
C23_Witness ==
    /\ Len(tf.calls) = 2
    /\ tf.calls[1].plan1 = "uninitialized"
    /\ tf.calls[1].steps = <<"plan", "init", "plan">>
    /\ tf.calls[1].exception = "CalledProcessError"
    /\ tf.calls[2].plan1 = "error"
    /\ tf.calls[2].steps = <<"plan">>
    /\ tf.calls[2].exception = "CalledProcessError"

\* a required role is missing from a map: a named machine of the system,
\* or every client
MissingRole(system, machines) ==
    \/ \E name \in NamedMachines(system) : <<name>> \notin machines
    \/ with_role(machines, "client") = {}

\* C24: from_dict raises for every map that lacks a required role, and so
\* constructs no Setting from such a map.
C24_MissingRoleRejected ==
    \A k \in DOMAIN from_dict_call.result :
        MissingRole(from_dict_call.system, from_dict_call.machines) =>
            /\ from_dict_call.result[k].exception = "ValueError"
            /\ from_dict_call.result[k].setting = <<>>

\* C25: the bootstrap has been run once for each group before the current
\* one and, once the current group is past it, once for the current group;
\* it is run when every connection of the fleet is open and no trial of the
\* group has started, and a run() of a group starts only after it.
C25_BootstrapOncePerGroup ==
    /\ pc \in {"start", "group_next"} => bootstraps = gi
    /\ pc \in {"infra", "connect", "etcd"} => bootstraps = gi - 1
    /\ pc = "etcd" =>
           /\ pending = {}
           /\ open_conns = 1..total_machines(groups[gi].environment)
           /\ ei = 0
           /\ started = 0
           /\ in_flight = 0
    /\ pc \in {"exp_next", "loop", "wait", "unwind", "returned", "close"}
           => bootstraps = gi
    /\ bootstraps \in {gi - 1, gi} \cap (0..gi)
    /\ (started > 0 \/ in_flight > 0 \/ ei > 0) => bootstraps = gi

\* the first run() of the second group is in flight
C25_Witness ==
    /\ pc = "wait"
    /\ gi = 2
    /\ ei = 1
    /\ attempt = 1
    /\ in_flight = 1
    /\ bootstraps = 2
    /\ open_conns = 1..6

\* the trial has written its Result
Succeeded == written # <<>>

\* the last attempt raised and its error was reported as the final failure
\* (spinner.fail when attempt == MAX_ATTEMPTS)
Failed == attempt = MAX_ATTEMPTS /\ task = "err"

\* C26: when retry_experiment returns, the trial has either written a
\* Result or used all its attempts and reported the final failure, and not
\* both.
C26_OneTerminalState ==
    pc = "returned" => (Succeeded /\ ~Failed) \/ (Failed /\ ~Succeeded)

GraceUsed == pc = "returned" /\ interrupted

\* the cancellation was followed by a further attempt: the last attempt of
\* the trial ended on its own, with a Result or with an error
Retried == Succeeded \/ task = "err"

\* C28: once a trial has acted on one cancellation, retried and returned,
\* a later trial that acts on one cancellation retries as well, and no
\* trial aborts on fewer than two cancellations.
C28_GracePerTrial ==
    []((GraceUsed /\ Retried) =>
          []( /\ GraceUsed => Retried
              /\ (pc = "raise" /\ exc = "KeyboardInterrupt") => sigs >= 2 ))

\* the grace is per trial: every trial begins with interrupted = False, and
\* an abort takes two cancellations in one trial
GraceResets ==
    /\ (pc = "loop" /\ attempt = 0) => ~interrupted
    /\ (pc = "raise" /\ exc = "KeyboardInterrupt") => sigs >= 2

\* C29: a run() that had completed when the wait returned with the flag set
\* is treated as cancelled: no Result is written for it, and the trial
\* either takes its grace or aborts.
C29_FlagWinsOverResult ==
    /\ (pc = "returned" /\ written # <<>>) => ~ctrl_c
    /\ (task = "ok" /\ pc = "loop") =>
           /\ interrupted
           /\ written = <<>>
           /\ Len(results) = res0
    /\ (task = "ok" /\ pc = "raise") =>
           /\ exc = "KeyboardInterrupt"
           /\ written = <<>>
           /\ Len(results) = res0

\* run() of attempt 1 completed, the flag was set when the wait returned,
\* and the trial is about to retry
C29_Witness ==
    /\ pc = "loop"
    /\ task = "ok"
    /\ ctrl_c
    /\ interrupted
    /\ attempt = 1
    /\ run_outcomes = <<"ok">>
    /\ written = <<>>

\* the stop command has been sent to its machine
Issued(state) == state \in {"running", "finished", "cancelled", "failed"}

\* C30: when run() has completed, by whatever path, every stop command of
\* every worker machine, every client machine and the publisher has been
\* issued and has finished.
C30_StopsOnEveryExit ==
    run_call.phase = "done" /\ run_call.result # "none" =>
        \A c \in shutdowns(run_call.workers, run_call.clients) :
            /\ Issued(run_call.stops[c])
            /\ run_call.stops[c] = "finished"

\* every exit path of _inner_run goes through the gather of all the stop
\* commands, and a run() that ends with the outcome of _inner_run (it is
\* not cancelled inside its finally block) and meets no SSH failure there
\* completes after all of them have finished
StopsWhenUndisturbed ==
    /\ run_call.phase = "finally" =>
           /\ DOMAIN run_call.stops =
                  shutdowns(run_call.workers, run_call.clients)
           /\ \A c \in DOMAIN run_call.stops : run_call.stops[c] # "none"
    /\ (/\ run_call.phase = "done"
        /\ run_call.result # "none"
        /\ run_result(run_call.exit) = run_call.result
        /\ \A c \in DOMAIN run_call.stops : run_call.stops[c] # "failed") =>
           \A c \in DOMAIN run_call.stops : run_call.stops[c] = "finished"

\* the process task has been told to shut down
ToldToStop(state) == express_call.shutdown \/ ProcOver(state)

\* C31: when an Express run() has ended, every process task it made has
\* been told to shut down, and none of them is still running when the next
\* attempt starts.
C31_ExpressProcessesStopped ==
    /\ (express_call.phase = "done" /\ express_call.result # "none") =>
           \A p \in DOMAIN express_call.procs :
               ToldToStop(express_call.procs[p])
    /\ express_call.next_started =>
           \A p \in DOMAIN express_call.procs :
               ProcOver(express_call.procs[p])

\* a run() that returns has set the event and seen every process task
\* return; a run() cancelled at "await all_procs" leaves no task running
ExpressStopsAfterSleep ==
    /\ express_call.result = "returned" =>
           /\ express_call.shutdown
           /\ \A p \in DOMAIN express_call.procs :
                  express_call.procs[p] = "exited"
    /\ (express_call.result = "cancelled" /\ express_call.shutdown) =>
           \A p \in DOMAIN express_call.procs :
               ProcOver(express_call.procs[p])

\* call i is the first call for its configuration: under force-rebuild it
\* is the call that forces
FirstCallFor(i) ==
    \A k \in 1..(i - 1) : calls[k].config # calls[i].config

\* C32: under force-rebuild, a configuration whose forced build failed is
\* in the rebuilt-set, and a later call for it whose manifest holds a
\* matching record does not run the builder and returns the most recent
\* matching record.
C32_FailedForceNotRepeated ==
    ~force_rebuilt.is_none =>
        \A i \in DOMAIN calls :
            (FirstCallFor(i) /\ calls[i].error = "CalledProcessError") =>
                /\ calls[i].invocations = 1
                /\ calls[i].config \in force_rebuilt.configs
                /\ \A j \in DOMAIN calls :
                      (/\ j > i
                       /\ calls[j].config = calls[i].config
                       /\ Matching(calls[j].file, calls[j].config) # {}) =>
                          /\ calls[j].invocations = 0
                          /\ calls[j].error = "none"
                          /\ calls[j].result =
                                 most_recent_matching(
                                     from_disk(calls[j].file),
                                     calls[j].config)

\* the forced build of a configuration that was in the manifest failed, and
\* the next call for it returned the record of the manifest
C32_Witness ==
    /\ ~force_rebuilt.is_none
    /\ Len(calls) = 2
    /\ calls[1].error = "CalledProcessError"
    /\ Matching(calls[1].file, calls[1].config) # {}
    /\ calls[2].config = calls[1].config
    /\ calls[2].invocations = 0
    /\ calls[2].result # <<>>
    /\ calls[2].result[1] \in { manifest[k] : k \in DOMAIN manifest }
    /\ packer_builds = <<calls[1].config>>

\* call i ran the builder although the manifest held a matching record (a
\* forced rebuild), the builder appended its record and the call returned
ForcedRebuildDone(i) ==
    /\ calls[i].invocations = 1
    /\ calls[i].error = "none"
    /\ Matching(calls[i].file, calls[i].config) # {}
    /\ Len(calls[i].file_after) = Len(calls[i].file) + 1

\* C33: a forced rebuild that succeeds while the manifest held an older
\* matching record returns a matching record with the greatest timestamp of
\* the reloaded manifest, which is the newly built record whenever the
\* builder stamped it later than the older matching records.
C33_NewestAfterRebuild ==
    \A i \in DOMAIN calls :
        ForcedRebuildDone(i) =>
            LET file == calls[i].file
                file_after == calls[i].file_after
                new == file_after[Len(file_after)]
            IN  /\ calls[i].result # <<>>
                /\ calls[i].result[1] \in
                       { file_after[k] :
                           k \in Matching(file_after, calls[i].config) }
                /\ \A k \in Matching(file_after, calls[i].config) :
                       file_after[k].timestamp <= calls[i].result[1].timestamp
                /\ (\A k \in Matching(file, calls[i].config) :
                        file[k].timestamp < new.timestamp) =>
                       calls[i].result = <<new>>

\* the manifest held one record, matching and stamped 1; the forced rebuild
\* appended a record stamped 2, which the call returned
C33_Witness ==
    /\ Len(calls) = 1
    /\ ForcedRebuildDone(1)
    /\ Len(calls[1].file) = 1
    /\ calls[1].file[1].timestamp = 1
    /\ manifest[2].timestamp = 2
    /\ to_config(manifest[2]) = calls[1].config
    /\ calls[1].result = <<manifest[2]>>

\* n is the least number of machines that hold a clients at b a machine
IsCeil(n, a, b) ==
    /\ n * b >= a
    /\ n > 0 => (n - 1) * b < a

\* C34: to_environment gives ceil(clients / clients_per_machine) client
\* machines and worker_machines_per_group * groups worker machines, east
\* and west together.
C34_MachineCounts ==
    (pure_call.fn = "to_environment" /\ pure_call.result # <<>>) =>
        LET e == pure_call.args
            environment == pure_call.result[1]
        IN  /\ environment.client_machines \in Nat
            /\ IsCeil(environment.client_machines, e.clients, cpm(e))
            /\ environment.worker_machines_east
                   + environment.worker_machines_west
                   = e.worker_machines_per_group * groups_of(e)

\* five clients at two a machine, three groups of two machines: three client
\* machines, four worker machines east and two west
C34_Witness ==
    /\ pure_call.fn = "to_environment"
    /\ pure_call.args.clients = 5
    /\ pure_call.args.clients_per_machine = 2
    /\ pure_call.args.worker_machines_per_group = 2
    /\ pure_call.args.protocol = SeedHomomorphic(3)
    /\ pure_call.result # <<>>
    /\ pure_call.result[1].client_machines = 3
    /\ pure_call.result[1].worker_machines_east = 4
    /\ pure_call.result[1].worker_machines_west = 2

\* the number of groups the help text gives for a protocol entry
DocumentedGroups(protocol) ==
    IF protocol.key = "Symmetric" THEN 2 ELSE protocol.parties

\* C35: an Experiment built from a documented protocol entry has the
\* documented number of groups: 2 for Symmetric, N for Insecure and for
\* SeedHomomorphic with N parties.
C35_GroupsOfProtocol ==
    (/\ pure_call.fn = "Experiment.from_dict"
     /\ pure_call.result # <<>>
     /\ pure_call.args.protocol \in DocumentedProtocols) =>
        /\ pure_call.result[1].error = "none"
        /\ groups_of(pure_call.result[1].value[1])
               = DocumentedGroups(pure_call.args.protocol)

\* the protocols that exist give the documented numbers of groups:
\* Symmetric and SymmetricPub 2, SeedHomomorphic its parties
GroupsOfExistingProtocols ==
    (/\ pure_call.fn = "Experiment.from_dict"
     /\ pure_call.result # <<>>
     /\ pure_call.args.protocol.key \in ProtocolSubclasses) =>
        /\ pure_call.result[1].error = "none"
        /\ groups_of(pure_call.result[1].value[1])
               = IF pure_call.args.protocol.key = "SeedHomomorphic"
                 THEN pure_call.args.protocol.parties
                 ELSE 2

\* the tokens of the records of a JSON list: a separator before every
\* record but the first
RECURSIVE JsonRecords(_)
JsonRecords(records) ==
    IF records = <<>> THEN <<>>
    ELSE IF Len(records) = 1 THEN records
    ELSE JsonRecords(SubSeq(records, 1, Len(records) - 1))
             \o <<SepToken, records[Len(records)]>>

\* the tokens of a well-formed JSON list of the records
JsonList(records) == <<OpenToken>> \o JsonRecords(records) \o <<CloseToken>>

EmptyListWritten ==
    (stream_call.phase = "exited" /\ stream_call.handed = <<>>) =>
        out_file \o out_buffer = <<OpenToken, CloseToken>>

\* C37: when an exception leaves the body, every record written before it
\* is in the file, the file is closed exactly when close is True, and no
\* closing bracket is written; the closing bracket is written on normal
\* exit only.
C37_NoBracketOnException ==
    /\ stream_call.phase = "raised" =>
           /\ Records(out_file) = stream_call.handed
           /\ out_file \o out_buffer
                  = <<OpenToken>> \o JsonRecords(stream_call.handed)
           /\ stream_call.closed = stream_call.close
           /\ stream_call.close => out_buffer = <<>>
    /\ stream_call.phase = "exited" => stream_call.closed = stream_call.close
    /\ (\E i \in DOMAIN (out_file \o out_buffer) :
            (out_file \o out_buffer)[i] = CloseToken)
           <=> stream_call.phase = "exited"

\* two records were written, then an exception left the body; the file was
\* closed without the closing bracket
C37_Witness ==
    /\ stream_call.phase = "raised"
    /\ stream_call.close
    /\ stream_call.closed
    /\ stream_call.handed = <<1, 2>>
    /\ out_file = <<OpenToken, 1, SepToken, 2>>
    /\ out_buffer = <<>>

\* the elements of a sequence
Range(seq) == { seq[i] : i \in DOMAIN seq }

\* C38: on the Setting of its own Environment, worker preparation does not
\* run out of machines, uses every worker machine exactly once, and gives
\* each group 1..groups worker_machines_per_group machines with start
\* indices 0, workers_per_machine, 2 * workers_per_machine, ...
C38_WorkersAssigned ==
    (pure_call.fn = "prepare_workers" /\ pure_call.result # <<>>) =>
        LET e == pure_call.args.experiment
            wpm == pure_call.args.workers_per_machine
            wmpg == e.worker_machines_per_group
            environment == to_environment(e)
            machines == Range(workers_east(environment))
                            \cup Range(workers_west(environment))
            error == pure_call.result[1].error
            tasks == pure_call.result[1].tasks
        IN  /\ error = "none"
            /\ \A m \in machines :
                   Cardinality({ i \in DOMAIN tasks :
                                   tasks[i].machine = m }) = 1
            /\ \A i \in DOMAIN tasks :
                   /\ tasks[i].machine \in machines
                   /\ tasks[i].group \in 1..groups_of(e)
            /\ \A g \in 1..groups_of(e) :
                   LET of_g == { i \in DOMAIN tasks : tasks[i].group = g }
                   IN  /\ Cardinality(of_g) = wmpg
                       /\ { tasks[i].worker_start_idx : i \in of_g }
                              = { k * wpm : k \in 0..(wmpg - 1) }

\* three groups of two machines with two workers a machine: groups 1 and 3
\* are in the east, group 2 in the west
C38_Witness ==
    /\ pure_call.fn = "prepare_workers"
    /\ pure_call.args.experiment.protocol = SeedHomomorphic(3)
    /\ pure_call.args.experiment.worker_machines_per_group = 2
    /\ pure_call.args.workers_per_machine = 2
    /\ pure_call.result # <<>>
    /\ Len(pure_call.result[1].tasks) = 6
    /\ pure_call.result[1].tasks[4] =
           [machine |-> <<"worker_west", 1>>, group |-> 2,
            worker_start_idx |-> 2]
    /\ pure_call.result[1].tasks[5] =
           [machine |-> <<"worker_east", 2>>, group |-> 3,
            worker_start_idx |-> 0]

\* the viewer indices of a range: viewer@{start..stop}
Viewers(r) == r.start..r.stop

\* C39: the viewer ranges of the client machines are pairwise disjoint, hold
\* at most clients_per_machine indices each, cover exactly 1..clients, and
\* there is one non-empty range for each of the ceil(clients /
\* clients_per_machine) client machines.
C39_ViewerRangesCover ==
    (pure_call.fn = "client_ranges" /\ pure_call.result # <<>>) =>
        LET ranges == pure_call.result[1]
            clients == pure_call.args.clients
            clients_per_machine == pure_call.args.clients_per_machine
        IN  /\ \A i, j \in DOMAIN ranges :
                   i # j => Viewers(ranges[i]) \cap Viewers(ranges[j]) = {}
            /\ \A i \in DOMAIN ranges :
                   /\ Viewers(ranges[i]) # {}
                   /\ Cardinality(Viewers(ranges[i])) <= clients_per_machine
            /\ UNION { Viewers(ranges[i]) : i \in DOMAIN ranges } = 1..clients
            /\ Len(ranges) = ceil_div(clients, clients_per_machine)

\* the ranges are always disjoint, non-empty, within 1..clients and of at
\* most clients_per_machine indices, and they cover 1..clients whenever
\* clients is not one more than a multiple of clients_per_machine
ViewerRangesWithinBounds ==
    (pure_call.fn = "client_ranges" /\ pure_call.result # <<>>) =>
        LET ranges == pure_call.result[1]
            clients == pure_call.args.clients
            clients_per_machine == pure_call.args.clients_per_machine
        IN  /\ \A i, j \in DOMAIN ranges :
                   i # j => Viewers(ranges[i]) \cap Viewers(ranges[j]) = {}
            /\ \A i \in DOMAIN ranges :
                   /\ Viewers(ranges[i]) # {}
                   /\ Viewers(ranges[i]) \subseteq 1..clients
                   /\ Cardinality(Viewers(ranges[i])) <= clients_per_machine
            /\ clients % clients_per_machine # 1 % clients_per_machine =>
                   /\ UNION { Viewers(ranges[i]) : i \in DOMAIN ranges }
                          = 1..clients
                   /\ Len(ranges) = ceil_div(clients, clients_per_machine)

\* C40: to_setup fails its assertion on a list of another length than
\* total_machines, and otherwise splits the list into a publisher,
\* worker_machines workers and client_machines clients that are pairwise
\* disjoint and together are the given machines.
C40_SetupPartition ==
    (pure_call.fn = "to_setup" /\ pure_call.result # <<>>) =>
        LET environment == pure_call.args.environment
            machines == pure_call.args.machines
            setup == pure_call.result[1]
            total == environment.client_machines
                         + environment.worker_machines + 1
        IN  IF Len(machines) # total
            THEN setup.error = "AssertionError"
            ELSE /\ setup.error = "none"
                 /\ Len(setup.workers) = environment.worker_machines
                 /\ Len(setup.clients) = environment.client_machines
                 /\ Range(setup.publisher) \cap Range(setup.workers) = {}
                 /\ Range(setup.publisher) \cap Range(setup.clients) = {}
                 /\ Range(setup.workers) \cap Range(setup.clients) = {}
                 /\ Range(setup.publisher) \cup Range(setup.workers)
                        \cup Range(setup.clients) = Range(machines)

\* with at least one client machine the split is a partition
SetupPartitionWithClients ==
    (/\ pure_call.fn = "to_setup"
     /\ pure_call.result # <<>>
     /\ pure_call.args.environment.client_machines >= 1
     /\ pure_call.result[1].error = "none") =>
        LET environment == pure_call.args.environment
            setup == pure_call.result[1]
        IN  /\ Len(setup.workers) = environment.worker_machines
            /\ Len(setup.clients) = environment.client_machines
            /\ Range(setup.publisher) \cap Range(setup.workers) = {}
            /\ Range(setup.publisher) \cap Range(setup.clients) = {}
            /\ Range(setup.workers) \cap Range(setup.clients) = {}
            /\ Range(setup.publisher) \cup Range(setup.workers)
                   \cup Range(setup.clients)
                   = Range(pure_call.args.machines)

====
